---- MODULE Spec2Model ----
(***************************************************************************)
(* Model of crypto-zero/go-biz: the verification package (fixed-window     *)
(* limiter, code cache, OTP service) and the authorization package         *)
(* (session cache).  The Redis server is modelled as a keyed store with    *)
(* absolute expiry times; every Redis command and every Lua script is one  *)
(* atomic step.                                                            *)
(***************************************************************************)
EXTENDS Integers, Sequences, FiniteSets, TLC

(***************************************************************************)
(* Bounds of the model.                                                    *)
(***************************************************************************)
\* Horizon of the verification store's clock, in milliseconds.
MaxTime == 3
\* Horizon of that clock in the runs with concurrent callers or store faults.
MaxTimeShort == 1
\* Largest limit handed to the limiter.
MaxLimit == 2
\* Largest window handed to the limiter, in whole milliseconds.
MaxWindowMs == 2
\* Number of limiter calls per key that the limiter specification explores.
MaxCalls == 3
\* Number of calls (SendMobileOTP, VerifyMobileOTP, PeekMobileCode) of a run,
\* and of a run with store faults.
MaxOps == 5
MaxOpsFaulty == 3
\* Length of the strings a caller passes as a key component.
MaxLen == 1
\* Number of calls of a run of the VerificationService.
MaxOpsHashed == 4
\* Number of calls of a run of the code cache's clients.
MaxCacheOps == 4
\* Instants of the session store's clock per second.
TicksPerSec == 2
\* Horizon of the session store's clock, in seconds.
MaxSec == 2
\* Largest session TTL, in seconds.
MaxTTLSec == 2
\* Number of session-cache calls of a run.
MaxSessOps == 3
\* Number of session-cache calls of a run that follows one user's index.
MaxOpsReap == 4
\* Number of OTP calls of a run that guesses at one credential.
MaxOpsGuess == 4
\* Number of session-cache calls and requests of a run of the middleware.
MaxOpsAuth == 2

\* time.Millisecond, in time.Duration units (nanoseconds).
Millisecond == 1000000

(***************************************************************************)
(* Strings are sequences of symbols; fmt.Sprintf("%s:%s") and strings.Join *)
(* concatenate them, strings.ToUpper maps them symbol by symbol.           *)
(***************************************************************************)
UpperSym(c) ==
    CASE c = "l" -> "L"
      [] c = "r" -> "R"
      [] OTHER -> c

\* No case mapping at all.
KeepCase(s) == s

ToUpper(s) == [i \in 1..Len(s) |-> UpperSym(s[i])]

\* Two type tags that differ only in letter case are the same tag to a caller.
FoldSym(c) ==
    CASE c = "L" -> "l"
      [] c = "R" -> "r"
      [] OTHER -> c

Fold(s) == [i \in 1..Len(s) |-> FoldSym(s[i])]

RECURSIVE Join(_, _)
Join(parts, sep) ==
    IF Len(parts) = 0 THEN << >>
    ELSE IF Len(parts) = 1 THEN parts[1]
    ELSE parts[1] \o sep \o Join(Tail(parts), sep)

Colon == <<":">>

\* The CodeCacheKeyPrefix both caches are constructed with.
Prefix == <<"TEST">>

(***************************************************************************)
(* The Redis keyspace: a function from the keys that exist to             *)
(* [val, exp]; exp is the absolute expiry time, NoTTL when the key has     *)
(* none.  A key whose expiry has been reached does not exist.              *)
(***************************************************************************)
NoTTL == -1

Exists(store, key, t) ==
    /\ key \in DOMAIN store
    /\ (store[key].exp = NoTTL \/ t < store[key].exp)

Put(store, key, rec) ==
    [k \in DOMAIN store \cup {key} |-> IF k = key THEN rec ELSE store[k]]

Del(store, key) ==
    [k \in DOMAIN store \ {key} |-> store[k]]

\* The keys the server has not yet expired at time t.
Purge(store, t) ==
    [k \in {x \in DOMAIN store : Exists(store, x, t)} |-> store[k]]

\* The outcomes of one round trip to the store: it is applied and answered,
\* or the request never reaches the server and the client gets an error.
NetOutcomes(faulty) == IF faulty THEN {"ok", "down"} ELSE {"ok"}

(***************************************************************************)
(* Limiter keys (cache.go buildKey and the six key constructors).          *)
(***************************************************************************)
buildKey(category, medium, parts) ==
    Join(<<Prefix, <<category>>, <<medium>>>> \o parts, Colon)

\* A failure key that leaves the sequence out.
mobileIncorrectKeyNoSequence(typ, sequence, mobile, countryCode) ==
    buildKey("VERIFICATION_FAILURE", "MOBILE",
             <<ToUpper(typ), mobile, countryCode>>)

mobileIncorrectKey(typ, sequence, mobile, countryCode) ==
    buildKey("VERIFICATION_FAILURE", "MOBILE",
             <<ToUpper(typ), sequence, mobile, countryCode>>)

emailIncorrectKey(typ, sequence, email) ==
    buildKey("VERIFICATION_FAILURE", "EMAIL", <<ToUpper(typ), sequence, email>>)

ecdsaIncorrectKey(typ, sequence, chain, address) ==
    buildKey("VERIFICATION_FAILURE", "ECDSA",
             <<ToUpper(typ), sequence, chain, address>>)

\* A send-limit key that leaves the mobile number out.
mobileLimitKeyNoMobile(typ, mobile, countryCode) ==
    buildKey("VERIFICATION_SEND_LIMIT", "MOBILE", <<ToUpper(typ), countryCode>>)

mobileLimitKey(typ, mobile, countryCode) ==
    buildKey("VERIFICATION_SEND_LIMIT", "MOBILE",
             <<ToUpper(typ), mobile, countryCode>>)

emailLimitKey(typ, email) ==
    buildKey("VERIFICATION_SEND_LIMIT", "EMAIL", <<ToUpper(typ), email>>)

ecdsaLimitKey(typ, chain, address) ==
    buildKey("VERIFICATION_SEND_LIMIT", "ECDSA", <<ToUpper(typ), chain, address>>)

(***************************************************************************)
(* fixedWindowScript: SET key 0 PX window NX; INCR; PTTL (PEXPIRE when the *)
(* key has no TTL); allowed = current <= limit.  SET ... PX 0 is rejected  *)
(* by the server ("invalid expire time"), which aborts the script before   *)
(* it has written anything.                                                *)
(***************************************************************************)
\* A script that resets the counter on every call (SET without NX).
fixedWindowScriptNoNX(store, key, limit, window_ms, t) ==
    IF window_ms <= 0
    THEN [ok |-> FALSE, store |-> store, res |-> << >>]
    ELSE LET s1      == Put(store, key, [val |-> 0, exp |-> t + window_ms])
             current == s1[key].val + 1
             s2      == [s1 EXCEPT ![key].val = current]
             allowed == IF current <= limit THEN 1 ELSE 0
         IN  [ok |-> TRUE, store |-> s2,
              res |-> <<allowed, current, limit, window_ms>>]

\* A script that renews the TTL on every call (a sliding window).
fixedWindowScriptSliding(store, key, limit, window_ms, t) ==
    IF window_ms <= 0
    THEN [ok |-> FALSE, store |-> store, res |-> << >>]
    ELSE LET s1      == IF Exists(store, key, t) THEN store
                        ELSE Put(store, key, [val |-> 0, exp |-> t + window_ms])
             current == s1[key].val + 1
             s2      == [s1 EXCEPT ![key].val = current,
                                   ![key].exp = t + window_ms]
             allowed == IF current <= limit THEN 1 ELSE 0
         IN  [ok |-> TRUE, store |-> s2,
              res |-> <<allowed, current, limit, window_ms>>]

\* A script without the defensive PEXPIRE.
fixedWindowScriptNoRepair(store, key, limit, window_ms, t) ==
    IF window_ms <= 0
    THEN [ok |-> FALSE, store |-> store, res |-> << >>]
    ELSE LET s1      == IF Exists(store, key, t) THEN store
                        ELSE Put(store, key, [val |-> 0, exp |-> t + window_ms])
             current == s1[key].val + 1
             s2      == [s1 EXCEPT ![key].val = current]
             pttl    == IF s2[key].exp = NoTTL THEN -1 ELSE s2[key].exp - t
             allowed == IF current <= limit THEN 1 ELSE 0
         IN  [ok |-> TRUE, store |-> s2, res |-> <<allowed, current, limit, pttl>>]

fixedWindowScript(store, key, limit, window_ms, t) ==
    IF window_ms <= 0
    THEN [ok |-> FALSE, store |-> store, res |-> << >>]
    ELSE LET s1      == IF Exists(store, key, t) THEN store
                        ELSE Put(store, key, [val |-> 0, exp |-> t + window_ms])
             current == s1[key].val + 1
             s2      == [s1 EXCEPT ![key].val = current]
             pttl    == IF s2[key].exp = NoTTL THEN -1 ELSE s2[key].exp - t
             s3      == IF pttl = -1
                        THEN [s2 EXCEPT ![key].exp = t + window_ms]
                        ELSE s2
             ttl     == IF pttl = -1 THEN window_ms ELSE pttl
             allowed == IF current <= limit THEN 1 ELSE 0
         IN  [ok |-> TRUE, store |-> s3, res |-> <<allowed, current, limit, ttl>>]

\* time.Duration.Milliseconds: whole milliseconds of a positive duration.
Milliseconds(d) == d \div Millisecond

NoDecision == [Allowed |-> FALSE, Count |-> 0, Limit |-> 0, ResetIn |-> 0]

ErrNone == "nil"
ErrInvalidWindow == "invalid window duration"
ErrInvalidLimit == "invalid limit"
ErrLimiterEval == "limiter eval failed"

\* A limiter that validates the limit before the window.
evalFixedWindowLimitFirst(store, key, limit, window, t, net) ==
    IF limit <= 0
    THEN [err |-> ErrInvalidLimit, store |-> store, dec |-> NoDecision]
    ELSE IF window <= 0
    THEN [err |-> ErrInvalidWindow, store |-> store, dec |-> NoDecision]
    ELSE LET r == fixedWindowScript(store, key, limit, Milliseconds(window), t)
         IN  IF net # "ok" \/ ~r.ok
             THEN [err |-> ErrLimiterEval, store |-> store, dec |-> NoDecision]
             ELSE [err |-> ErrNone, store |-> r.store,
                   dec |-> [Allowed |-> r.res[1] = 1,
                            Count   |-> r.res[2],
                            Limit   |-> r.res[3],
                            ResetIn |-> r.res[4] * Millisecond]]

\* CodeLimiterCacheImpl.evalFixedWindow.  The result carries the store after
\* the call, the error and the LimitDecision.
evalFixedWindow(store, key, limit, window, t, net) ==
    IF window <= 0
    THEN [err |-> ErrInvalidWindow, store |-> store, dec |-> NoDecision]
    ELSE IF limit <= 0
    THEN [err |-> ErrInvalidLimit, store |-> store, dec |-> NoDecision]
    ELSE LET r == fixedWindowScript(store, key, limit, Milliseconds(window), t)
         IN  IF net # "ok" \/ ~r.ok
             THEN [err |-> ErrLimiterEval, store |-> store, dec |-> NoDecision]
             ELSE [err |-> ErrNone, store |-> r.store,
                   dec |-> [Allowed |-> r.res[1] = 1,
                            Count   |-> r.res[2],
                            Limit   |-> r.res[3],
                            ResetIn |-> r.res[4] * Millisecond]]

\* Get*CodeIncorrectCount: GET key, redis.Nil reads as 0.
ErrStore == "store unavailable"

\* A count that always reads as zero.
getIncorrectCountZero(store, key, t, net) ==
    IF net # "ok" THEN [err |-> ErrStore, cnt |-> 0]
    ELSE [err |-> ErrNone, cnt |-> 0]

getIncorrectCount(store, key, t, net) ==
    IF net # "ok" THEN [err |-> ErrStore, cnt |-> 0]
    ELSE IF Exists(store, key, t) THEN [err |-> ErrNone, cnt |-> store[key].val]
    ELSE [err |-> ErrNone, cnt |-> 0]

\* The errors of a failed round trip to the store, as the cache returns them.
StoreFailure(err) == err \in {ErrStore, ErrLimiterEval}

\* Delete*CodeIncorrect: DEL key, which succeeds whether or not the key exists.
deleteIncorrectStrict(store, key, net) ==
    IF net # "ok" \/ key \notin DOMAIN store
    THEN [err |-> ErrStore, store |-> store]
    ELSE [err |-> ErrNone, store |-> Del(store, key)]

deleteIncorrect(store, key, net) ==
    IF net # "ok" THEN [err |-> ErrStore, store |-> store]
    ELSE [err |-> ErrNone, store |-> Del(store, key)]

(***************************************************************************)
(* Code cache (CodeCacheImpl): gob-encoded MobileCode under MobileCodeKey. *)
(***************************************************************************)
\* A code key that leaves the sequence out.
MobileCodeKeyNoSequence(typ, sequence, mobile, countryCode) ==
    Join(<<Prefix, <<"VERIFICATION_CODE">>, <<"MOBILE">>, ToUpper(typ),
           mobile, countryCode>>, Colon)

MobileCodeKey(typ, sequence, mobile, countryCode) ==
    Join(<<Prefix, <<"VERIFICATION_CODE">>, <<"MOBILE">>, ToUpper(typ),
           sequence, mobile, countryCode>>, Colon)

\* A decoder that loses the context arguments.
GobDecodeNoArgs(data) ==
    [UserID |-> data[1], Type |-> data[2], Sequence |-> data[3],
     CodeLength |-> data[4], Code |-> data[5], Content |-> data[6],
     Args |-> << >>, Format |-> "nil", Mobile |-> data[8],
     CountryCode |-> data[9]]

\* gob skips the func-typed field Format and sends every other field.
GobEncode(mc) ==
    <<mc.UserID, mc.Type, mc.Sequence, mc.CodeLength, mc.Code, mc.Content,
      mc.Args, mc.Mobile, mc.CountryCode>>

GobDecode(data) ==
    [UserID |-> data[1], Type |-> data[2], Sequence |-> data[3],
     CodeLength |-> data[4], Code |-> data[5], Content |-> data[6],
     Args |-> data[7], Format |-> "nil", Mobile |-> data[8],
     CountryCode |-> data[9]]

\* The expiry client.Set gives the key: none for a zero duration, otherwise
\* the duration in milliseconds, at least one.
SetExpiry(expire, t) ==
    IF expire <= 0 THEN NoTTL
    ELSE IF expire < Millisecond THEN t + 1
    ELSE t + Milliseconds(expire)

ErrCodeNotFound == "ErrCodeNotFound"

SetMobileCode(store, code, expire, t, net) ==
    IF net # "ok" THEN [err |-> ErrStore, store |-> store]
    ELSE [err |-> ErrNone,
          store |-> Put(store,
                        MobileCodeKey(code.Type, code.Sequence, code.Mobile,
                                      code.CountryCode),
                        [val |-> GobEncode(code), exp |-> SetExpiry(expire, t)])]

NoCode ==
    [UserID |-> 0, Type |-> << >>, Sequence |-> << >>, CodeLength |-> 0,
     Code |-> << >>, Content |-> << >>, Args |-> << >>, Format |-> "nil",
     Mobile |-> << >>, CountryCode |-> << >>]

PeekMobileCode(store, typ, sequence, mobile, countryCode, t, net) ==
    LET key == MobileCodeKey(typ, sequence, mobile, countryCode)
    IN  IF net # "ok" THEN [err |-> ErrStore, code |-> NoCode]
        ELSE IF ~Exists(store, key, t)
        THEN [err |-> ErrCodeNotFound, code |-> NoCode]
        ELSE [err |-> ErrNone, code |-> GobDecode(store[key].val)]

\* GetMobileCode: GETDEL, one atomic fetch-and-delete.
GetMobileCode(store, typ, sequence, mobile, countryCode, t, net) ==
    LET key == MobileCodeKey(typ, sequence, mobile, countryCode)
    IN  IF net # "ok" THEN [err |-> ErrStore, code |-> NoCode, store |-> store]
        ELSE IF ~Exists(store, key, t)
        THEN [err |-> ErrCodeNotFound, code |-> NoCode, store |-> store]
        ELSE [err |-> ErrNone, code |-> GobDecode(store[key].val),
              store |-> Del(store, key)]

DeleteMobileCode(store, typ, sequence, mobile, countryCode, net) ==
    IF net # "ok" THEN [err |-> ErrStore, store |-> store]
    ELSE [err |-> ErrNone,
          store |-> Del(store, MobileCodeKey(typ, sequence, mobile, countryCode))]

(***************************************************************************)
(* Code generator (defaultCodeGenerator.NewMobileCode).  seq and code are  *)
(* what the CodeFactory returned.                                          *)
(***************************************************************************)
ErrCodeTypeIsEmpty == "ErrCodeTypeIsEmpty"

ContentTemplate == <<"Your verification code is: %s.">>

NewMobileCode(typ, userID, mobile, countryCode, seq, code) ==
    IF typ = << >>
    THEN [err |-> ErrCodeTypeIsEmpty, mc |-> NoCode]
    ELSE [err |-> ErrNone,
          mc |-> [UserID |-> userID, Type |-> ToUpper(typ), Sequence |-> seq,
                  CodeLength |-> Len(code), Code |-> code,
                  Content |-> ContentTemplate, Args |-> <<code>>,
                  Format |-> "fmt.Sprintf", Mobile |-> mobile,
                  CountryCode |-> countryCode]]

(***************************************************************************)
(* State.                                                                  *)
(***************************************************************************)
VARIABLES
    now,        \* verification store: the server's clock, in milliseconds
    redis,      \* verification store: the keyspace
    cfg,        \* the OTPServiceImpl policy fields and the run's mode
    proc,       \* per caller: the call in progress and its position
    nextSeq,    \* number of sequences the CodeFactory has handed out, plus 1
    returned,   \* sequences that SendMobileOTP has returned to a caller
    ret,        \* the call that returned in the last step, if any
    winN,       \* per limiter key: script runs since the key was created
    winCounts,  \* per limiter key: the Counts returned since it was created
    lapsed,     \* keys the server has removed because their TTL elapsed
    nv,         \* per sequence: VerifyMobileOTP calls that have returned
    wrongRun,   \* per sequence: the first maxVerifyIncorrect returned calls
                \* (or all of them, if fewer) presented a wrong code
    nOK,        \* per sequence: VerifyMobileOTP calls that have returned nil
    nBad,       \* per sequence: VerifyMobileOTP calls that have returned
                \* ErrCodeIncorrect
    calls,      \* calls started so far
    lockedOut,  \* sequences for which one has returned the verify limit error
    taken,      \* per credential key: Get*Code calls that have returned the
                \* credential since it was last stored
    sendWin,    \* per type and target: start of the current send window and
                \* the SendMobileOTP calls that reached the limiter in it
    put         \* per credential key: the credential a client last stored with
                \* Set*Code and has not taken or deleted since, and when

VARIABLES
    clock,      \* session store: the clock, in ticks of 1/TicksPerSec second
    sstore,     \* session store: the keyspace
    sproc,      \* per caller of the session cache: the call in progress
    sret,       \* the session-cache call that returned in the last step
    scalls,     \* session-cache calls started so far
    auth        \* the request the authentication middleware is handling or
                \* has handled last

VARIABLES
    subscriber  \* the JetStream subscriber: the Subscribe call in progress, its
                \* context, and the consumer's messages at the server

vvars == <<now, redis, cfg, proc, nextSeq, returned, ret, winN, winCounts,
           lapsed, nv, wrongRun, nOK, nBad, calls, lockedOut, taken, sendWin, put>>

\* The bookkeeping that only the code cache's clients and SendMobileOTP keep.
gvars == <<taken, sendWin, put>>

svars == <<clock, sstore, sproc, sret, scalls, auth>>

vars == <<vvars, svars, subscriber>>

Get0(f, k) == IF k \in DOMAIN f THEN f[k] ELSE 0
GetSet(f, k) == IF k \in DOMAIN f THEN f[k] ELSE {}
Restrict(f, S) == [k \in DOMAIN f \cap S |-> f[k]]

NoRet == [op |-> "none"]

\* Ghost bookkeeping of one evalFixedWindow call on key with result r.
WinNAfter(key, r) ==
    IF r.err # ErrNone THEN winN
    ELSE Restrict(Put(winN, key,
                      IF Exists(redis, key, now) THEN Get0(winN, key) + 1 ELSE 1),
                  DOMAIN r.store)

WinCountsAfter(key, r) ==
    IF r.err # ErrNone THEN winCounts
    ELSE Restrict(Put(winCounts, key,
                      (IF Exists(redis, key, now) THEN GetSet(winCounts, key)
                       ELSE {}) \cup {r.dec.Count}),
                  DOMAIN r.store)

(***************************************************************************)
(* Inputs.                                                                 *)
(***************************************************************************)
SeqSym == <<"s1", "s2", "s3", "s4", "s5", "s6", "s7", "s8">>
SeqName(n) == <<SeqSym[n]>>

Types == {<<"l">>}
TheMobile == <<"m">>
TheCountry == <<"c">>
TheEmail == <<"e">>
CodeOK == <<"6">>
CodeBad == <<"0">>

LimitsIn == -1..MaxLimit
WindowsIn ==
    {-Millisecond, 0, Millisecond \div 2}
        \cup {w * Millisecond : w \in 1..MaxWindowMs}

NoProc == [pc |-> "idle"]

\* The subscriber before Subscribe is called: no message delivered yet.
MaxMsgs == 2
Msgs == 1..MaxMsgs
NoMsg == 0
NoResult == "running"
NoSub ==
    [pc |-> "idle", ctx |-> "nil", subscribed |-> FALSE, cur |-> NoMsg,
     result |-> NoResult, ferr |-> "nil", fetches |-> 0, last |-> "none",
     lastMsg |-> NoMsg, unsubscribed |-> FALSE,
     msgs |-> [m \in Msgs |-> [acked |-> FALSE, pending |-> FALSE,
                               deliveries |-> 0, oks |-> 0, errs |-> 0,
                               acks |-> 0]]]

\* The session cache before its first call.
InitSessionStore ==
    /\ clock = 0
    /\ sstore = << >>
    /\ sproc = [p \in {1, 2} |-> NoProc]
    /\ sret = NoRet
    /\ scalls = 0
    /\ auth = [pc |-> "idle", op |-> "none"]

InitVerification(c) ==
    /\ InitSessionStore
    /\ subscriber = NoSub
    /\ now = 0
    /\ redis = << >>
    /\ cfg = c
    /\ proc = [p \in {1, 2} |-> NoProc]
    /\ nextSeq = 1
    /\ returned = {}
    /\ ret = NoRet
    /\ winN = << >>
    /\ winCounts = << >>
    /\ lapsed = {}
    /\ nv = << >>
    /\ wrongRun = << >>
    /\ nOK = << >>
    /\ nBad = << >>
    /\ calls = 0
    /\ lockedOut = {}
    /\ taken = << >>
    /\ sendWin = << >>
    /\ put = << >>

NoCfg ==
    [maxSendAttempts |-> 0, sendWindowDuration |-> 0, maxVerifyIncorrect |-> 0,
     verifyWindowDuration |-> 0, ttl |-> 0, sequential |-> TRUE,
     faulty |-> FALSE, horizon |-> MaxTime, ops |-> 0, types |-> Types,
     mobiles |-> {TheMobile}, secret |-> << >>]

\* The server's clock advances; keys whose TTL has elapsed are gone.
Tick ==
    /\ now < cfg.horizon
    /\ now' = now + 1
    /\ redis' = Purge(redis, now + 1)
    /\ lapsed' = lapsed \cup (DOMAIN redis \ DOMAIN redis')
    /\ winN' = Restrict(winN, DOMAIN redis')
    /\ winCounts' = Restrict(winCounts, DOMAIN redis')
    /\ sendWin' = Restrict(sendWin,
                           {tgt \in DOMAIN sendWin :
                               now + 1 < sendWin[tgt].start
                                         + Milliseconds(cfg.sendWindowDuration)})
    /\ ret' = NoRet
    /\ UNCHANGED <<cfg, proc, nextSeq, returned, nv, wrongRun, nOK, nBad, calls,
                   lockedOut, taken, put, svars, subscriber>>

(***************************************************************************)
(* The limiter cache, called directly (CodeLimiterCacheImpl's methods).    *)
(***************************************************************************)
LimiterFrame ==
    UNCHANGED <<now, cfg, proc, nextSeq, returned, lapsed, nv, wrongRun,
                nOK, nBad, calls, lockedOut, gvars, svars, subscriber>>

\* One evalFixedWindow call on key.
LimiterCall(op, key, limit, window) ==
    LET r == evalFixedWindow(redis, key, limit, window, now, "ok")
    IN  /\ Get0(winN, key) < MaxCalls
        /\ redis' = r.store
        /\ winN' = WinNAfter(key, r)
        /\ winCounts' = WinCountsAfter(key, r)
        /\ ret' = [op |-> op, key |-> key, limit |-> limit, window |-> window,
                   err |-> r.err, dec |-> r.dec, n |-> Get0(winN', key),
                   pre |-> redis]
        /\ LimiterFrame

AllowSendMobile ==
    \E typ \in Types, limit \in LimitsIn, window \in WindowsIn :
        LimiterCall("AllowSendMobile",
                    mobileLimitKey(typ, TheMobile, TheCountry), limit, window)

IncrementMobileCodeIncorrect ==
    \E typ \in Types, maxAttempts \in LimitsIn, lockDuration \in WindowsIn :
        LimiterCall("IncrementMobileCodeIncorrect",
                    mobileIncorrectKey(typ, SeqName(1), TheMobile, TheCountry),
                    maxAttempts, lockDuration)

GetMobileCodeIncorrectCount ==
    \E typ \in Types :
        LET key == mobileIncorrectKey(typ, SeqName(1), TheMobile, TheCountry)
            r   == getIncorrectCount(redis, key, now, "ok")
        IN  /\ ret' = [op |-> "GetMobileCodeIncorrectCount", key |-> key,
                       err |-> r.err, cnt |-> r.cnt]
            /\ UNCHANGED <<redis, winN, winCounts>>
            /\ LimiterFrame

DeleteMobileCodeIncorrect ==
    \E typ \in Types :
        LET key == mobileIncorrectKey(typ, SeqName(1), TheMobile, TheCountry)
            r   == deleteIncorrect(redis, key, "ok")
        IN  /\ redis' = r.store
            /\ winN' = Restrict(winN, DOMAIN r.store)
            /\ winCounts' = Restrict(winCounts, DOMAIN r.store)
            /\ ret' = [op |-> "DeleteMobileCodeIncorrect", key |-> key,
                       err |-> r.err, pre |-> redis,
                       had |-> Exists(redis, key, now),
                       again |-> (/\ ret.op = "DeleteMobileCodeIncorrect"
                                  /\ ret.key = key /\ ret.had)]
            /\ LimiterFrame

InitLimiter == InitVerification(NoCfg)

NextLimiter ==
    \/ AllowSendMobile
    \/ IncrementMobileCodeIncorrect
    \/ GetMobileCodeIncorrectCount
    \/ DeleteMobileCodeIncorrect
    \/ Tick

SpecLimiter == InitLimiter /\ [][NextLimiter]_vars

(***************************************************************************)
(* C1: every limiter call that returns a decision returns Count = N and    *)
(* Allowed = (N <= limit), where N is the number of calls on that key      *)
(* since the key's window began, and the Counts returned within one window *)
(* are pairwise different.                                                 *)
(***************************************************************************)
IsLimiterOp(op) ==
    op \in {"AllowSendMobile", "IncrementMobileCodeIncorrect"}

C1_NthCallCount ==
    (IsLimiterOp(ret.op) /\ ret.err = ErrNone) =>
        /\ ret.limit >= 1 /\ ret.window > 0
        /\ ret.dec.Count = ret.n
        /\ ret.dec.Allowed = (ret.n <= ret.limit)
        /\ Cardinality(GetSet(winCounts, ret.key)) = ret.n

\* A call beyond the limit was made in a window and denied.
C1_Witness ==
    /\ IsLimiterOp(ret.op) /\ ret.err = ErrNone
    /\ ret.n = ret.limit + 1
    /\ ~ret.dec.Allowed

(***************************************************************************)
(* OTPServiceImpl.  Every round trip to the store is one step of the       *)
(* caller; a call returns in the step of its last round trip.              *)
(***************************************************************************)
ErrMobileSendLimitExceeded == "ErrMobileSendLimitExceeded"
ErrMobileVerifyLimitExceeded == "ErrMobileVerifyLimitExceeded"
ErrCodeIncorrect == "ErrCodeIncorrect"
ErrSender == "sender error"

Procs == {1, 2}
TheUser == 1

\* The keyspace as a call finds it, kept for the sequential runs.
Pre(store) == IF cfg.sequential THEN store ELSE << >>

\* In a sequential run one caller makes one call at a time.  The callers are
\* interchangeable: of two idle callers the first one starts.
CanStart(p) ==
    /\ p = 1 \/ proc[1].pc # "idle"
    /\ cfg.sequential => \A q \in Procs : proc[q].pc = "idle"

Goto(p, rec) ==
    /\ proc' = [proc EXCEPT ![p] = rec]
    /\ ret' = NoRet

Return(p, rec) ==
    /\ proc' = [proc EXCEPT ![p] = NoProc]
    /\ ret' = rec

\* The send window of a type and target as a caller counts it: the window
\* opens with the first SendMobileOTP call that finds none open, lasts
\* sendWindowDuration, and every call within it is counted.
SendWinAfter(tgt, typ, t) ==
    IF /\ tgt \in DOMAIN sendWin
       /\ t < sendWin[tgt].start + Milliseconds(cfg.sendWindowDuration)
    THEN [start |-> sendWin[tgt].start, n |-> sendWin[tgt].n + 1,
          typs |-> sendWin[tgt].typs \cup {typ}]
    ELSE [start |-> t, n |-> 1, typs |-> {typ}]

\* otp.go: if !allowMobile.Allowed
SendRejectedOffByOne(dec) == dec.Count > dec.Limit + 1

SendRejected(dec) == ~dec.Allowed

\* SendMobileOTP up to SetMobileCode: the limiter, then the generator.
SendAllow(p) ==
    /\ proc[p].pc = "idle"
    /\ CanStart(p)
    /\ calls < cfg.ops
    /\ \E typ \in cfg.types, mobile \in cfg.mobiles,
          net \in NetOutcomes(cfg.faulty) :
        LET key  == mobileLimitKey(typ, mobile, TheCountry)
            r    == evalFixedWindow(redis, key, cfg.maxSendAttempts,
                                    cfg.sendWindowDuration, now, net)
            g    == NewMobileCode(typ, TheUser, mobile, TheCountry,
                                  SeqName(nextSeq), CodeOK)
            tgt  == <<Fold(typ), mobile, TheCountry>>
            win  == SendWinAfter(tgt, typ, now)
            base == [pc |-> "idle", op |-> "send", p |-> p, typ |-> typ,
                     mobile |-> mobile,
                     res |-> ErrNone, n |-> Get0(winN', key), gen |-> FALSE,
                     wrote |-> FALSE, sent |-> FALSE, senderFailed |-> FALSE,
                     reached |-> FALSE, mc |-> NoCode, pre |-> Pre(redis),
                     limited |-> (r.err = ErrNone), dec |-> r.dec,
                     refN |-> win.n, post |-> Pre(r.store),
                     failed |-> StoreFailure(r.err)]
        IN  /\ redis' = r.store
            /\ sendWin' = IF r.err = ErrNone THEN Put(sendWin, tgt, win)
                          ELSE sendWin
            /\ winN' = WinNAfter(key, r)
            /\ winCounts' = WinCountsAfter(key, r)
            /\ calls' = calls + 1
            /\ IF r.err # ErrNone
               THEN /\ Return(p, [base EXCEPT !.res = r.err])
                    /\ nextSeq' = nextSeq
               ELSE IF SendRejected(r.dec)
               THEN /\ Return(p, [base EXCEPT !.res = ErrMobileSendLimitExceeded])
                    /\ nextSeq' = nextSeq
               ELSE IF g.err # ErrNone
               THEN /\ Return(p, [base EXCEPT !.res = g.err, !.gen = TRUE])
                    /\ nextSeq' = nextSeq
               ELSE /\ Goto(p, [base EXCEPT !.pc = "S_set", !.gen = TRUE,
                                            !.mc = g.mc])
                    /\ nextSeq' = nextSeq + 1
            /\ UNCHANGED <<now, cfg, returned, lapsed, nv, wrongRun, nOK, nBad,
                           lockedOut, taken, put, svars, subscriber>>

OtpFrame ==
    UNCHANGED <<now, cfg, nextSeq, winN, winCounts, lapsed, nv, wrongRun, nOK, nBad,
                calls, lockedOut, gvars, svars, subscriber>>

\* s.cache.SetMobileCode(ctx, mc, s.ttl), then s.smsSender.Send(ctx, mc): the
\* sender delivers or fails.  No caller can present the sequence before this
\* call returns it, so the write and the send are one step.
SendSetAndSend(p) ==
    /\ proc[p].pc = "S_set"
    /\ \E net \in NetOutcomes(cfg.faulty), delivered \in BOOLEAN :
        LET r == SetMobileCode(redis, proc[p].mc, cfg.ttl, now, net)
        IN  /\ redis' = r.store
            /\ IF r.err # ErrNone
               THEN /\ Return(p, [proc[p] EXCEPT !.pc = "idle", !.res = r.err,
                                                 !.failed = StoreFailure(r.err)])
                    /\ UNCHANGED returned
               ELSE IF delivered
               THEN /\ Return(p, [proc[p] EXCEPT !.pc = "idle", !.wrote = TRUE,
                                                 !.sent = TRUE])
                    /\ returned' = returned \cup {proc[p].mc.Sequence}
               ELSE /\ Goto(p, [proc[p] EXCEPT !.pc = "S_cleanup",
                                               !.wrote = TRUE, !.sent = TRUE,
                                               !.senderFailed = TRUE])
                    /\ UNCHANGED returned
    /\ OtpFrame

\* The cleanup after a failed delivery (otp.go: _ = s.cache.DeleteMobileCode).
SendCleanupNone(store, mc, net) == [err |-> ErrNone, store |-> store]

SendCleanupDelete(store, mc, net) ==
    DeleteMobileCode(store, mc.Type, mc.Sequence, mc.Mobile, mc.CountryCode, net)

SendCleanup(p) ==
    /\ proc[p].pc = "S_cleanup"
    /\ \E net \in NetOutcomes(cfg.faulty) :
        LET r == SendCleanupDelete(redis, proc[p].mc, net)
        IN  /\ redis' = r.store
            /\ Return(p, [proc[p] EXCEPT !.pc = "idle", !.res = ErrSender,
                                         !.reached = (net = "ok"),
                                         !.failed = StoreFailure(r.err)])
    /\ UNCHANGED returned
    /\ OtpFrame

\* The sequences a caller presents: those SendMobileOTP has returned.
VerifySeqs == returned

GetTrue(f, k) == IF k \in DOMAIN f THEN f[k] ELSE TRUE

VGoto(p, rec) ==
    /\ Goto(p, rec)
    /\ UNCHANGED <<nv, wrongRun, nOK, nBad, lockedOut>>

\* VerifyMobileOTP returns res.
VReturn(p, rec, res) ==
    LET k  == Get0(nv, rec.seq) + 1
        wr == IF k <= cfg.maxVerifyIncorrect
              THEN GetTrue(wrongRun, rec.seq) /\ ~rec.correct
              ELSE GetTrue(wrongRun, rec.seq)
    IN  /\ Return(p, [rec EXCEPT !.pc = "idle", !.res = res, !.idx = k,
                                 !.prefixWrong = wr])
        /\ nv' = Put(nv, rec.seq, k)
        /\ wrongRun' = Put(wrongRun, rec.seq, wr)
        /\ nOK' = IF res = ErrNone THEN Put(nOK, rec.seq, Get0(nOK, rec.seq) + 1)
                  ELSE nOK
        /\ nBad' = IF res = ErrCodeIncorrect
                   THEN Put(nBad, rec.seq, Get0(nBad, rec.seq) + 1)
                   ELSE nBad
        /\ lockedOut' = IF res = ErrMobileVerifyLimitExceeded
                        THEN lockedOut \cup {rec.seq} ELSE lockedOut

VerifyFrame ==
    UNCHANGED <<now, cfg, nextSeq, returned, lapsed, gvars, svars, subscriber>>

\* A limit check that is off by one.
VerifyLockedOffByOne(cnt, maxVerifyIncorrect) == cnt > maxVerifyIncorrect

\* otp.go: if cnt >= s.maxVerifyIncorrect
VerifyLocked(cnt, maxVerifyIncorrect) == cnt >= maxVerifyIncorrect

\* otp.go: if stored.Code.Code != input
CodeMismatch(stored, input) == stored # input

\* VerifyMobileOTP: GetMobileCodeIncorrectCount and the limit check.
VerifyCount(p) ==
    /\ proc[p].pc = "idle"
    /\ CanStart(p)
    /\ calls < cfg.ops
    /\ \E typ \in cfg.types, mobile \in cfg.mobiles, seq \in VerifySeqs,
          input \in {CodeOK, CodeBad},
          net \in NetOutcomes(cfg.faulty) :
        LET key  == mobileIncorrectKey(typ, seq, mobile, TheCountry)
            r    == getIncorrectCount(redis, key, now, net)
            base == [pc |-> "idle", op |-> "verify", p |-> p, typ |-> typ,
                     mobile |-> mobile,
                     seq |-> seq, input |-> input, correct |-> (input = CodeOK),
                     res |-> ErrNone, idx |-> 0, prefixWrong |-> TRUE,
                     afterLock |-> (seq \in lockedOut),
                     afterOK |-> (Get0(nOK, seq) > 0),
                     afterTTL |-> (MobileCodeKey(typ, seq, mobile,
                                                 TheCountry) \in lapsed),
                     pre |-> Pre(redis), failed |-> StoreFailure(r.err),
                     read |-> FALSE]
        IN  IF r.err # ErrNone THEN VReturn(p, base, r.err)
            ELSE IF VerifyLocked(r.cnt, cfg.maxVerifyIncorrect)
            THEN VGoto(p, [base EXCEPT !.pc = "V_lockdel"])
            ELSE VGoto(p, [base EXCEPT !.pc = "V_peek"])
    /\ calls' = calls + 1
    /\ UNCHANGED <<redis, winN, winCounts>>
    /\ VerifyFrame

\* Lockout: _ = s.cache.DeleteMobileCode(...)
VerifyLockDel(p) ==
    /\ proc[p].pc = "V_lockdel"
    /\ \E net \in NetOutcomes(cfg.faulty) :
        LET r == DeleteMobileCode(redis, proc[p].typ, proc[p].seq, proc[p].mobile,
                                  TheCountry, net)
        IN  /\ redis' = r.store
            /\ VGoto(p, [proc[p] EXCEPT !.pc = "V_lockclear",
                                        !.failed = StoreFailure(r.err)])
    /\ UNCHANGED <<winN, winCounts, calls>>
    /\ VerifyFrame

\* Lockout: _ = s.limiterCache.DeleteMobileCodeIncorrect(...), then the error.
VerifyLockClear(p) ==
    /\ proc[p].pc = "V_lockclear"
    /\ \E net \in NetOutcomes(cfg.faulty) :
        LET key == mobileIncorrectKey(proc[p].typ, proc[p].seq, proc[p].mobile,
                                      TheCountry)
            r   == deleteIncorrect(redis, key, net)
        IN  /\ redis' = r.store
            /\ winN' = Restrict(winN, DOMAIN r.store)
            /\ winCounts' = Restrict(winCounts, DOMAIN r.store)
            /\ VReturn(p, [proc[p] EXCEPT
                              !.failed = @ \/ StoreFailure(r.err)],
                       ErrMobileVerifyLimitExceeded)
    /\ UNCHANGED <<calls>>
    /\ VerifyFrame

\* A destructive read in place of the peek.
VerifyReadConsuming(store, typ, sequence, mobile, countryCode, t, net) ==
    GetMobileCode(store, typ, sequence, mobile, countryCode, t, net)

\* otp.go: stored, err := s.cache.PeekMobileCode(...)
VerifyRead(store, typ, sequence, mobile, countryCode, t, net) ==
    LET r == PeekMobileCode(store, typ, sequence, mobile, countryCode, t, net)
    IN  [err |-> r.err, code |-> r.code, store |-> store]

\* The non-destructive read and the comparison.
VerifyPeek(p) ==
    /\ proc[p].pc = "V_peek"
    /\ \E net \in NetOutcomes(cfg.faulty) :
        LET r == VerifyRead(redis, proc[p].typ, proc[p].seq, proc[p].mobile,
                            TheCountry, now, net)
        IN  /\ redis' = r.store
            /\ IF r.err # ErrNone
               THEN VReturn(p, [proc[p] EXCEPT !.failed = StoreFailure(r.err),
                                               !.read = TRUE],
                            r.err)
               ELSE IF CodeMismatch(r.code.Code, proc[p].input)
               THEN VGoto(p, [proc[p] EXCEPT !.pc = "V_incr", !.read = TRUE])
               ELSE VGoto(p, [proc[p] EXCEPT !.pc = "V_del", !.read = TRUE])
    /\ UNCHANGED <<winN, winCounts, calls>>
    /\ VerifyFrame

\* Mismatch: _, _ = s.limiterCache.IncrementMobileCodeIncorrect(...)
VerifyIncr(p) ==
    /\ proc[p].pc = "V_incr"
    /\ \E net \in NetOutcomes(cfg.faulty) :
        LET key == mobileIncorrectKey(proc[p].typ, proc[p].seq, proc[p].mobile,
                                      TheCountry)
            r   == evalFixedWindow(redis, key, cfg.maxVerifyIncorrect,
                                   cfg.verifyWindowDuration, now, net)
        IN  /\ redis' = r.store
            /\ winN' = WinNAfter(key, r)
            /\ winCounts' = WinCountsAfter(key, r)
            /\ VReturn(p, [proc[p] EXCEPT !.failed = StoreFailure(r.err)],
                       ErrCodeIncorrect)
    /\ UNCHANGED <<calls>>
    /\ VerifyFrame

\* A success path that leaves the code in the store.
VerifyConsumeNone(store, typ, sequence, mobile, countryCode, net) ==
    [err |-> ErrNone, store |-> store]

\* otp.go: if err = s.cache.DeleteMobileCode(...); err != nil
VerifyConsume(store, typ, sequence, mobile, countryCode, net) ==
    DeleteMobileCode(store, typ, sequence, mobile, countryCode, net)

\* Match: s.cache.DeleteMobileCode(...)
VerifyDel(p) ==
    /\ proc[p].pc = "V_del"
    /\ \E net \in NetOutcomes(cfg.faulty) :
        LET r == VerifyConsume(redis, proc[p].typ, proc[p].seq, proc[p].mobile,
                               TheCountry, net)
        IN  /\ redis' = r.store
            /\ IF r.err # ErrNone
               THEN VReturn(p, [proc[p] EXCEPT !.failed = StoreFailure(r.err)],
                            r.err)
               ELSE VGoto(p, [proc[p] EXCEPT !.pc = "V_clear"])
    /\ UNCHANGED <<winN, winCounts, calls>>
    /\ VerifyFrame

\* Match: _ = s.limiterCache.DeleteMobileCodeIncorrect(...), then nil.
VerifyClear(p) ==
    /\ proc[p].pc = "V_clear"
    /\ \E net \in NetOutcomes(cfg.faulty) :
        LET key == mobileIncorrectKey(proc[p].typ, proc[p].seq, proc[p].mobile,
                                      TheCountry)
            r   == deleteIncorrect(redis, key, net)
        IN  /\ redis' = r.store
            /\ winN' = Restrict(winN, DOMAIN r.store)
            /\ winCounts' = Restrict(winCounts, DOMAIN r.store)
            /\ VReturn(p, [proc[p] EXCEPT !.failed = StoreFailure(r.err)],
                       ErrNone)
    /\ UNCHANGED <<calls>>
    /\ VerifyFrame

\* CodeCacheImpl.PeekMobileCode called by a client of the cache.
Peek(p) ==
    /\ proc[p].pc = "idle"
    /\ CanStart(p)
    /\ calls < cfg.ops
    /\ \E typ \in cfg.types, mobile \in cfg.mobiles, seq \in VerifySeqs,
          net \in NetOutcomes(cfg.faulty) :
        LET r == PeekMobileCode(redis, typ, seq, mobile, TheCountry, now, net)
        IN  ret' = [op |-> "peek", mobile |-> mobile, p |-> p, typ |-> typ,
                    seq |-> seq,
                    res |-> r.err, code |-> r.code,
                    afterOK |-> (Get0(nOK, seq) > 0),
                    afterTTL |-> (MobileCodeKey(typ, seq, mobile,
                                                TheCountry) \in lapsed)]
    /\ calls' = calls + 1
    /\ UNCHANGED <<now, redis, cfg, proc, nextSeq, returned, winN, winCounts,
                   lapsed, nv, wrongRun, nOK, nBad, lockedOut, gvars, svars, subscriber>>

(***************************************************************************)
(* Specifications of the OTP service.                                      *)
(***************************************************************************)
\* The policies explored: the two limits are varied together (they guard
\* different keys), the windows and the code TTL are valid durations.
CfgSet(sequential, faulty, horizon, ops) ==
    {[maxSendAttempts |-> k,
      sendWindowDuration |-> MaxWindowMs * Millisecond,
      maxVerifyIncorrect |-> k,
      verifyWindowDuration |-> MaxWindowMs * Millisecond,
      ttl |-> MaxWindowMs * Millisecond,
      sequential |-> sequential,
      faulty |-> faulty,
      horizon |-> horizon,
      ops |-> ops,
      types |-> Types,
      mobiles |-> {TheMobile},
      secret |-> << >>] : k \in 1..MaxLimit}

NextOTP ==
    \/ \E p \in Procs : SendAllow(p)
    \/ \E p \in Procs : SendSetAndSend(p)
    \/ \E p \in Procs : SendCleanup(p)
    \/ \E p \in Procs : VerifyCount(p)
    \/ \E p \in Procs : VerifyLockDel(p)
    \/ \E p \in Procs : VerifyLockClear(p)
    \/ \E p \in Procs : VerifyPeek(p)
    \/ \E p \in Procs : VerifyIncr(p)
    \/ \E p \in Procs : VerifyDel(p)
    \/ \E p \in Procs : VerifyClear(p)
    \/ \E p \in Procs : Peek(p)
    \/ Tick

\* Concurrent callers, the store reachable.
Init == \E c \in CfgSet(FALSE, FALSE, MaxTimeShort, MaxOps) : InitVerification(c)
Spec == Init /\ [][NextOTP]_vars

\* One caller, one call at a time, the store reachable.
InitSeq == \E c \in CfgSet(TRUE, FALSE, MaxTime, MaxOps) : InitVerification(c)
SpecSeq == InitSeq /\ [][NextOTP]_vars

\* One caller, one call at a time, for several types and targets.
MaxOpsTargets == 3
OtherMobile == <<"n">>
TargetTypes == {<<"l">>, <<"L">>, <<"r">>}

CfgTargets ==
    {[c EXCEPT !.types = TargetTypes, !.mobiles = {TheMobile, OtherMobile}] :
        c \in CfgSet(TRUE, FALSE, MaxWindowMs, MaxOpsTargets)}

InitTargets == \E c \in CfgTargets : InitVerification(c)
SpecTargets == InitTargets /\ [][NextOTP]_vars

\* One caller, one call at a time, for one type spelled in two ways.
MaxOpsCase == 3
CaseTypes == {<<"l">>, <<"L">>}

CfgCase ==
    {[c EXCEPT !.types = CaseTypes] :
        c \in CfgSet(TRUE, FALSE, MaxWindowMs, MaxOpsCase)}

InitCase == \E c \in CfgCase : InitVerification(c)
SpecCase == InitCase /\ [][NextOTP]_vars

\* One caller, one call at a time; a round trip to the store may fail.
InitFaulty == \E c \in CfgSet(TRUE, TRUE, MaxTimeShort, MaxOpsFaulty) : InitVerification(c)
SpecFaulty == InitFaulty /\ [][NextOTP]_vars

(***************************************************************************)
(* Claims about the OTP service.                                           *)
(***************************************************************************)
RetCodeKey == MobileCodeKey(ret.typ, ret.seq, ret.mobile, TheCountry)
RetFailKey == mobileIncorrectKey(ret.typ, ret.seq, ret.mobile, TheCountry)

C3_OneTimeUse ==
    /\ (/\ ret.op = "verify" /\ ret.correct /\ ~ret.afterOK
         /\ ret.idx <= cfg.maxVerifyIncorrect
         /\ RetCodeKey \notin lapsed) => ret.res = ErrNone
    /\ (ret.op = "verify" /\ ret.res = ErrNone) =>
            ~Exists(redis, RetCodeKey, now)
    /\ (ret.op \in {"verify", "peek"} /\ ret.afterOK) =>
            ret.res = ErrCodeNotFound
    /\ \A s \in DOMAIN nOK :
            \A typ \in Types :
                ~Exists(redis, MobileCodeKey(typ, s, TheMobile, TheCountry), now)

\* The correct code presented a second time.
C3_Witness ==
    /\ ret.op = "verify"
    /\ ret.afterOK
    /\ ret.correct
    /\ ret.res = ErrCodeNotFound

\* C4: at most one VerifyMobileOTP call returns nil for one sequence.
C4_AtMostOneSuccess ==
    \A s \in DOMAIN nOK : nOK[s] <= 1

\* C5: a SendMobileOTP call that is the N-th on its send-limit key within
\* one window, N > maxSendAttempts, returns ErrMobileSendLimitExceeded and
\* has not called the generator, written a credential or invoked the sender.
C5_SendThrottled ==
    (ret.op = "send" /\ ret.n > cfg.maxSendAttempts) =>
        /\ ret.res = ErrMobileSendLimitExceeded
        /\ ~ret.gen /\ ~ret.wrote /\ ~ret.sent
        /\ ret.mc = NoCode

\* The third call of a window with a limit of two.
C5_Witness ==
    /\ ret.op = "send"
    /\ cfg.maxSendAttempts = 2
    /\ ret.n = 3
    /\ ret.res = ErrMobileSendLimitExceeded

C7_FailedDeliveryCleansUp ==
    (ret.op = "send" /\ ret.senderFailed) =>
        /\ ret.res = ErrSender
        /\ ret.mc.Sequence \notin returned
        /\ ret.reached =>
               ~Exists(redis, MobileCodeKey(ret.mc.Type, ret.mc.Sequence,
                                            ret.mc.Mobile, ret.mc.CountryCode),
                       now)

\* A failed delivery whose cleanup reached the store.
C7_Witness ==
    /\ ret.op = "send" /\ ret.senderFailed
    /\ ret.wrote /\ ret.reached
    /\ ret.res = ErrSender

\* C8: a VerifyMobileOTP call that starts after a call for the same sequence
\* has returned ErrMobileVerifyLimitExceeded returns ErrCodeNotFound.
C8_LockoutTerminal ==
    (ret.op = "verify" /\ ret.afterLock) => ret.res = ErrCodeNotFound

(***************************************************************************)
(* The session cache (authorization/session.go).  Times are clock ticks;   *)
(* Redis takes EXPIREAT and EXPIRE arguments in whole seconds.             *)
(***************************************************************************)
\* time.Second, and time.Time.Unix(): the whole seconds of an instant.
Second == TicksPerSec
Unix(t) == t \div Second

Max(S) == CHOOSE x \in S : \A y \in S : y <= x

\* fmt.Sprintf("%d", userID), and the Int64() parse of a reply.
DigitSym == <<"1", "2", "3", "4", "5", "6", "7", "8", "9">>
Itoa(n) == <<DigitSym[n]>>

\* A parse that answers the same user for every reply.
AtoiConst(str) == Len(str)

Atoi(str) == CHOOSE n \in 1..Len(DigitSym) : DigitSym[n] = str[1]

\* The SessionCachePrefix the cache is constructed with.
SessionPrefix == <<"TEST">>

userSessionKey(sessionID) ==
    Join(<<SessionPrefix, <<"USER">>, <<"SESSION">>, sessionID>>, Colon)

userSessionMapKey(userID) ==
    Join(<<SessionPrefix, <<"USER">>, <<"SESSION">>, <<"MAP">>, Itoa(userID)>>,
         Colon)

\* SET key value: the value replaces the key; the key has no TTL.
RedisSet(store, key, v) == Put(store, key, [val |-> v, exp |-> NoTTL])

\* EXPIREAT key ts: a timestamp that is not in the future deletes the key.
RedisExpireAt(store, key, ts, t) ==
    IF ~Exists(store, key, t) THEN store
    ELSE IF ts * Second <= t THEN Del(store, key)
    ELSE Put(store, key, [store[key] EXCEPT !.exp = ts * Second])

\* EXPIRE key seconds.
RedisExpire(store, key, secs, t) ==
    IF ~Exists(store, key, t) THEN store
    ELSE IF secs <= 0 THEN Del(store, key)
    ELSE Put(store, key, [store[key] EXCEPT !.exp = t + secs * Second])

\* An HSET that replaces the hash.
RedisHSetReplacing(store, key, field, v, t) ==
    Put(store, key, [val |-> Put(<< >>, field, v),
                     exp |-> IF Exists(store, key, t) THEN store[key].exp
                             ELSE NoTTL])

\* HSET key field value: a missing key is created, without a TTL.
RedisHSet(store, key, field, v, t) ==
    IF Exists(store, key, t)
    THEN Put(store, key, [store[key] EXCEPT !.val = Put(@, field, v)])
    ELSE Put(store, key, [val |-> Put(<< >>, field, v), exp |-> NoTTL])

\* HDEL key field...: a hash left without fields is removed.
RedisHDel(store, key, fields, t) ==
    IF ~Exists(store, key, t) THEN store
    ELSE LET rest == Restrict(store[key].val, DOMAIN store[key].val \ fields)
         IN  IF DOMAIN rest = {} THEN Del(store, key)
             ELSE Put(store, key, [store[key] EXCEPT !.val = rest])

\* The Lua script, run by the server at time t.
userSetSessionIDScript(store, key, mapKey, userID, sessionID, expire_timestamp, current_timestamp, t) ==
    LET s1 == RedisSet(store, key, userID)
        s2 == RedisExpireAt(s1, key, expire_timestamp, t)
        s3 == RedisHSet(s2, mapKey, sessionID, expire_timestamp, t)
        hash_table == s3[mapKey].val
        stale == {f \in DOMAIN hash_table : hash_table[f] < current_timestamp}
        s4 == RedisHDel(s3, mapKey, stale, t)
        latest == Max({expire_timestamp} \cup
                      {hash_table[f] : f \in DOMAIN hash_table \ stale})
    IN  RedisExpireAt(s4, mapKey, latest, t)

\* go-redis Expire: the duration in whole seconds, a sub-second one as 1.
ExpireSecs(d) == IF d > 0 /\ d < Second THEN 1 ELSE d \div Second

ErrSessionNotFound == "ErrSessionNotFound"

Sessions == {<<"A">>, <<"B">>}
Users == {1, 2}
\* The expire arguments: whole seconds, and one that is not a whole number of
\* seconds.
SessionTTLs == {k * Second : k \in 1..MaxTTLSec} \cup {Second + 1}
SProcs == {1, 2}

\* The number of session-cache calls of the run.
SessOps == IF cfg.ops > 0 THEN cfg.ops ELSE MaxSessOps

\* The second caller starts a call only while the first one is in a call; in
\* a sequential run a call starts only when no call is in progress.
SCanStart(p) ==
    /\ (p = 1 \/ sproc[1].pc # "idle")
    /\ (cfg.sequential => \A q \in SProcs : sproc[q].pc = "idle")

\* The userID arguments of a run: two users in a sequential run, one user
\* with concurrent callers.
CallUsers == IF cfg.sequential THEN Users ELSE {TheUser}

\* The expiry recorded for a session in a user's index; NoEntry if none.
NoEntry == -1
IndexEntry(store, userID, sessionID, t) ==
    LET mapKey == userSessionMapKey(userID)
    IN  IF Exists(store, mapKey, t) /\ sessionID \in DOMAIN store[mapKey].val
        THEN store[mapKey].val[sessionID]
        ELSE NoEntry

SessionFrame == UNCHANGED <<clock, scalls, vvars, subscriber, auth>>

\* SetUserSessionID up to the script: n := time.Now() and the two timestamps.
SetUserSessionIDNow(p) ==
    /\ sproc[p].pc = "idle"
    /\ SCanStart(p)
    /\ scalls < SessOps
    /\ \E sessionID \in Sessions, userID \in CallUsers, expire \in SessionTTLs :
        sproc' = [sproc EXCEPT ![p] =
                     [pc |-> "S_run", sessionID |-> sessionID,
                      userID |-> userID, expire |-> expire, n |-> clock,
                      currentTimestamp |-> Unix(clock),
                      expireTimestamp |-> Unix(clock + expire)]]
    /\ scalls' = scalls + 1
    /\ sret' = NoRet
    /\ UNCHANGED <<clock, sstore, vvars, subscriber, auth>>

\* userSetSessionIDScript.Run(...): the script is one step of the server.
SetUserSessionID(p) ==
    /\ sproc[p].pc = "S_run"
    /\ sstore' = userSetSessionIDScript(
                     sstore, userSessionKey(sproc[p].sessionID),
                     userSessionMapKey(sproc[p].userID), Itoa(sproc[p].userID),
                     sproc[p].sessionID, sproc[p].expireTimestamp,
                     sproc[p].currentTimestamp, clock)
    /\ sproc' = [sproc EXCEPT ![p] = NoProc]
    /\ sret' = [op |-> "set", p |-> p, sessionID |-> sproc[p].sessionID,
                userID |-> sproc[p].userID, expire |-> sproc[p].expire,
                n |-> sproc[p].n, at |-> clock, err |-> ErrNone]
    /\ SessionFrame

\* GetUserIDBySessionID: s.client.Get(ctx, key).Int64()
GetRead(p, sessionID, expire) ==
    LET key == userSessionKey(sessionID)
    IN  IF ~Exists(sstore, key, clock)
        THEN /\ sret' = [op |-> "get", p |-> p, sessionID |-> sessionID,
                         userID |-> 0, expire |-> expire, t |-> clock,
                         found |-> FALSE, pre |-> sstore,
                         err |-> ErrSessionNotFound]
             /\ sproc' = sproc
        ELSE /\ sret' = NoRet
             /\ sproc' = [sproc EXCEPT ![p] =
                             [pc |-> "G_now", sessionID |-> sessionID,
                              userID |-> Atoi(sstore[key].val),
                              expire |-> expire, t |-> clock,
                              readVal |-> sstore[key].val,
                              preExp |-> sstore[key].exp,
                              preIdx |-> IndexEntry(sstore,
                                            Atoi(sstore[key].val),
                                            sessionID, clock)]]

GetUserIDBySessionID(p) ==
    /\ sproc[p].pc = "idle"
    /\ SCanStart(p)
    /\ scalls < SessOps
    /\ scalls' = scalls + 1
    /\ \E sessionID \in Sessions, expire \in SessionTTLs :
        GetRead(p, sessionID, expire)
    /\ UNCHANGED <<clock, sstore, vvars, subscriber, auth>>

\* expireAt := time.Now().Add(expire)
GetNow(p) ==
    /\ sproc[p].pc = "G_now"
    /\ sproc' = [sproc EXCEPT ![p] =
                    [pc |-> "G_expireKey", sessionID |-> sproc[p].sessionID,
                     userID |-> sproc[p].userID, expire |-> sproc[p].expire,
                     t |-> sproc[p].t, readVal |-> sproc[p].readVal,
                     preExp |-> sproc[p].preExp, preIdx |-> sproc[p].preIdx,
                     expireAt |-> clock + sproc[p].expire]]
    /\ sret' = NoRet
    /\ UNCHANGED sstore
    /\ SessionFrame

\* pipe.Expire(ctx, key, expire)
GetExpireKey(p) ==
    /\ sproc[p].pc = "G_expireKey"
    /\ sstore' = RedisExpire(sstore, userSessionKey(sproc[p].sessionID),
                             ExpireSecs(sproc[p].expire), clock)
    /\ sproc' = [sproc EXCEPT ![p].pc = "G_expireMap"]
    /\ sret' = NoRet
    /\ SessionFrame

\* pipe.Expire(ctx, mapKey, expire)
GetExpireMap(p) ==
    /\ sproc[p].pc = "G_expireMap"
    /\ sstore' = RedisExpire(sstore, userSessionMapKey(sproc[p].userID),
                             ExpireSecs(sproc[p].expire), clock)
    /\ sproc' = [sproc EXCEPT ![p].pc = "G_hset"]
    /\ sret' = NoRet
    /\ SessionFrame

\* pipe.HSet(ctx, mapKey, sessionID, expireAt.Unix()), and the return.
GetReturn(p) ==
    /\ sproc[p].pc = "G_hset"
    /\ sstore' = RedisHSet(sstore, userSessionMapKey(sproc[p].userID),
                           sproc[p].sessionID, Unix(sproc[p].expireAt), clock)
    /\ sproc' = [sproc EXCEPT ![p] = NoProc]
    /\ sret' = [op |-> "get", p |-> p, sessionID |-> sproc[p].sessionID,
                userID |-> sproc[p].userID, expire |-> sproc[p].expire,
                t |-> sproc[p].t, found |-> TRUE,
                readVal |-> sproc[p].readVal, preExp |-> sproc[p].preExp,
                preIdx |-> sproc[p].preIdx, err |-> ErrNone]
    /\ UNCHANGED <<clock, scalls, vvars, subscriber>>

\* A call made by a client of the session cache returns.
GetHSet(p) ==
    /\ GetReturn(p)
    /\ UNCHANGED auth

\* The session store's clock advances; keys whose TTL has elapsed are gone.
SessionTick ==
    /\ clock < MaxSec * TicksPerSec
    /\ clock' = clock + 1
    /\ sstore' = Purge(sstore, clock + 1)
    /\ sret' = NoRet
    /\ UNCHANGED <<sproc, scalls, vvars, subscriber, auth>>

\* Concurrent callers of the session cache.
InitSession == InitVerification([NoCfg EXCEPT !.sequential = FALSE])

NextSession ==
    \/ \E p \in SProcs : SetUserSessionIDNow(p)
    \/ \E p \in SProcs : SetUserSessionID(p)
    \/ \E p \in SProcs : GetUserIDBySessionID(p)
    \/ \E p \in SProcs : GetNow(p)
    \/ \E p \in SProcs : GetExpireKey(p)
    \/ \E p \in SProcs : GetExpireMap(p)
    \/ \E p \in SProcs : GetHSet(p)
    \/ SessionTick

SpecSession == InitSession /\ [][NextSession]_vars

\* One caller of the session cache, one call at a time.
InitSessionSeq == InitVerification(NoCfg)
SpecSessionSeq == InitSessionSeq /\ [][NextSession]_vars

(***************************************************************************)
(* Claims about the session cache.                                         *)
(***************************************************************************)
\* C9: when SetUserSessionID(sessionID, userID, ttl), called at the instant
\* n and run by the server at that instant, has returned: the primary key
\* holds userID and expires at n + ttl; the user's index holds sessionID with
\* the recorded expiry n + ttl; no entry of the index has a recorded expiry
\* earlier than n; the index key expires at the latest recorded expiry.
C9_SetIsExact ==
    (sret.op = "set" /\ sret.at = sret.n) =>
        LET key    == userSessionKey(sret.sessionID)
            mapKey == userSessionMapKey(sret.userID)
            due    == sret.n + sret.expire
        IN  /\ Exists(sstore, key, clock)
            /\ Atoi(sstore[key].val) = sret.userID
            /\ sstore[key].exp = due
            /\ Exists(sstore, mapKey, clock)
            /\ sret.sessionID \in DOMAIN sstore[mapKey].val
            /\ sstore[mapKey].val[sret.sessionID] * Second = due
            /\ \A f \in DOMAIN sstore[mapKey].val :
                   sstore[mapKey].val[f] * Second >= sret.n
            /\ sstore[mapKey].exp =
                   Max({sstore[mapKey].val[f] : f \in DOMAIN sstore[mapKey].val})
                       * Second

\* C10: every session whose primary key exists has an entry in the index of
\* the user the primary key names.
C10_IndexComplete ==
    \A sessionID \in Sessions :
        LET key == userSessionKey(sessionID)
        IN  Exists(sstore, key, clock) =>
                LET mapKey == userSessionMapKey(Atoi(sstore[key].val))
                IN  /\ Exists(sstore, mapKey, clock)
                    /\ sessionID \in DOMAIN sstore[mapKey].val

\* C11: when GetUserIDBySessionID has returned a user ID, the expiry of the
\* primary key (if the key is still there) and the expiry recorded for the
\* session in the user's index are not earlier than they were when the call
\* read the primary key.
C11_SlideForward ==
    (sret.op = "get" /\ sret.err = ErrNone) =>
        LET key == userSessionKey(sret.sessionID)
        IN  /\ Exists(sstore, key, clock) => sstore[key].exp >= sret.preExp
            /\ IndexEntry(sstore, sret.userID, sret.sessionID, clock)
                   >= sret.preIdx

\* C12: when GetUserIDBySessionID, called at the instant t with the sliding
\* TTL e, has returned a user ID within that instant, the primary key exists
\* and does not expire before t + e.
C12_SlidingExpiry ==
    (sret.op = "get" /\ sret.err = ErrNone /\ clock = sret.t) =>
        LET key == userSessionKey(sret.sessionID)
        IN  /\ Exists(sstore, key, clock)
            /\ sstore[key].exp >= sret.t + sret.expire

\* C13: a GetUserIDBySessionID call that returns a user ID read the primary
\* key of the session and found that user ID in it (and the key, if it is
\* still there, holds it); a call that returns ErrSessionNotFound found no
\* primary key, returns no user ID and leaves the whole store as it was.
C13_NoFalseGrant ==
    sret.op = "get" =>
        LET key == userSessionKey(sret.sessionID)
        IN  IF sret.err = ErrNone
            THEN /\ sret.found
                 /\ sret.userID \in Users
                 /\ sret.readVal = Itoa(sret.userID)
                 /\ Exists(sstore, key, clock) =>
                        sstore[key].val = Itoa(sret.userID)
            ELSE /\ sret.err = ErrSessionNotFound
                 /\ ~Exists(sret.pre, key, sret.t)
                 /\ sret.userID = 0
                 /\ sstore = sret.pre

\* A session that was issued, has expired and is still listed in the index
\* of its user is looked up.
C13_Witness ==
    /\ sret.op = "get"
    /\ sret.err = ErrSessionNotFound
    /\ \E userID \in Users :
           IndexEntry(sstore, userID, sret.sessionID, clock) # NoEntry

\* C15: sequential calls: a VerifyMobileOTP or PeekMobileCode call that
\* starts after the TTL of the sequence's credential has elapsed returns
\* ErrCodeNotFound, whatever code it presents.
C15_ExpiredIsNotFound ==
    (ret.op \in {"verify", "peek"} /\ ret.afterTTL) =>
        ret.res = ErrCodeNotFound

(***************************************************************************)
(* The code cache called directly by its clients, for the three channels   *)
(* (CodeCacheImpl's Set, Get, Peek and Delete methods).                    *)
(***************************************************************************)
EmailCodeKey(typ, sequence, email) ==
    Join(<<Prefix, <<"VERIFICATION_CODE">>, <<"EMAIL">>, ToUpper(typ),
           sequence, email>>, Colon)

EcdsaCodeKey(typ, sequence, chain, address) ==
    Join(<<Prefix, <<"VERIFICATION_CODE">>, <<"ECDSA">>, ToUpper(typ),
           sequence, chain, address>>, Colon)

\* client.Set(ctx, key, buffer.Bytes(), expire)
setBytes(store, key, data, expire, t, net) ==
    IF net # "ok" THEN [err |-> ErrStore, store |-> store]
    ELSE [err |-> ErrNone,
          store |-> Put(store, key,
                        [val |-> data, exp |-> SetExpiry(expire, t)])]

\* client.Get(ctx, key).Bytes()
getBytes(store, key, t, net) ==
    IF net # "ok" THEN [err |-> ErrStore, data |-> << >>, store |-> store]
    ELSE IF ~Exists(store, key, t)
    THEN [err |-> ErrCodeNotFound, data |-> << >>, store |-> store]
    ELSE [err |-> ErrNone, data |-> store[key].val, store |-> store]

\* A fetch that leaves the key in place.
getDelBytesKeeping(store, key, t, net) ==
    IF net # "ok" THEN [err |-> ErrStore, data |-> << >>, store |-> store]
    ELSE IF ~Exists(store, key, t)
    THEN [err |-> ErrCodeNotFound, data |-> << >>, store |-> store]
    ELSE [err |-> ErrNone, data |-> store[key].val, store |-> store]

\* client.GetDel(ctx, key).Bytes(): GETDEL, one command of the server.
getDelBytes(store, key, t, net) ==
    IF net # "ok" THEN [err |-> ErrStore, data |-> << >>, store |-> store]
    ELSE IF ~Exists(store, key, t)
    THEN [err |-> ErrCodeNotFound, data |-> << >>, store |-> store]
    ELSE [err |-> ErrNone, data |-> store[key].val, store |-> Del(store, key)]

\* client.Del(ctx, key)
delKey(store, key, net) ==
    IF net # "ok" THEN [err |-> ErrStore, store |-> store]
    ELSE [err |-> ErrNone, store |-> Del(store, key)]

GobEncodeEmail(ec) ==
    <<ec.UserID, ec.Type, ec.Sequence, ec.CodeLength, ec.Code, ec.Content,
      ec.Args, ec.Email>>

GobDecodeEmail(data) ==
    [UserID |-> data[1], Type |-> data[2], Sequence |-> data[3],
     CodeLength |-> data[4], Code |-> data[5], Content |-> data[6],
     Args |-> data[7], Format |-> "nil", Email |-> data[8]]

GobEncodeEcdsa(ec) ==
    <<ec.UserID, ec.Type, ec.Sequence, ec.CodeLength, ec.Code, ec.Content,
      ec.Args, ec.Chain, ec.Address>>

GobDecodeEcdsa(data) ==
    [UserID |-> data[1], Type |-> data[2], Sequence |-> data[3],
     CodeLength |-> data[4], Code |-> data[5], Content |-> data[6],
     Args |-> data[7], Format |-> "nil", Chain |-> data[8],
     Address |-> data[9]]

SetEmailCode(store, code, expire, t, net) ==
    setBytes(store, EmailCodeKey(code.Type, code.Sequence, code.Email),
             GobEncodeEmail(code), expire, t, net)

SetEcdsaCode(store, code, expire, t, net) ==
    setBytes(store,
             EcdsaCodeKey(code.Type, code.Sequence, code.Chain, code.Address),
             GobEncodeEcdsa(code), expire, t, net)

GetEmailCode(store, typ, sequence, email, t, net) ==
    LET r == getDelBytes(store, EmailCodeKey(typ, sequence, email), t, net)
    IN  [err |-> r.err, store |-> r.store,
         code |-> IF r.err = ErrNone THEN GobDecodeEmail(r.data) ELSE NoCode]

GetEcdsaCode(store, typ, sequence, chain, address, t, net) ==
    LET r == getDelBytes(store, EcdsaCodeKey(typ, sequence, chain, address),
                         t, net)
    IN  [err |-> r.err, store |-> r.store,
         code |-> IF r.err = ErrNone THEN GobDecodeEcdsa(r.data) ELSE NoCode]

PeekEmailCode(store, typ, sequence, email, t, net) ==
    LET r == getBytes(store, EmailCodeKey(typ, sequence, email), t, net)
    IN  [err |-> r.err,
         code |-> IF r.err = ErrNone THEN GobDecodeEmail(r.data) ELSE NoCode]

PeekEcdsaCode(store, typ, sequence, chain, address, t, net) ==
    LET r == getBytes(store, EcdsaCodeKey(typ, sequence, chain, address),
                      t, net)
    IN  [err |-> r.err,
         code |-> IF r.err = ErrNone THEN GobDecodeEcdsa(r.data) ELSE NoCode]

DeleteEmailCode(store, typ, sequence, email, net) ==
    delKey(store, EmailCodeKey(typ, sequence, email), net)

DeleteEcdsaCode(store, typ, sequence, chain, address, net) ==
    delKey(store, EcdsaCodeKey(typ, sequence, chain, address), net)

\* The inputs of the cache's clients.
Channels == {"MOBILE", "EMAIL", "ECDSA"}
CacheTypes == {<<"l">>, <<"L">>}
TheChain == <<"h">>
TheAddress == <<"a">>
CacheTTL == MaxWindowMs * Millisecond

\* The Code part of a credential a client stores under the type tag typ.
ClientCode(typ) ==
    [UserID |-> TheUser, Type |-> typ, Sequence |-> SeqName(1),
     CodeLength |-> Len(CodeOK), Code |-> CodeOK, Content |-> ContentTemplate,
     Args |-> <<CodeOK>>, Format |-> "fmt.Sprintf"]

Extend(rec, ext) ==
    [f \in DOMAIN rec \cup DOMAIN ext |->
        IF f \in DOMAIN ext THEN ext[f] ELSE rec[f]]

ClientMobileCode(typ) ==
    Extend(ClientCode(typ), [Mobile |-> TheMobile, CountryCode |-> TheCountry])
ClientEmailCode(typ) ==
    Extend(ClientCode(typ), [Email |-> TheEmail])
ClientEcdsaCode(typ) ==
    Extend(ClientCode(typ), [Chain |-> TheChain, Address |-> TheAddress])

\* The key a channel's methods address for a type tag.
CodeKeyOf(ch, typ) ==
    CASE ch = "MOBILE" -> MobileCodeKey(typ, SeqName(1), TheMobile, TheCountry)
      [] ch = "EMAIL"  -> EmailCodeKey(typ, SeqName(1), TheEmail)
      [] ch = "ECDSA"  -> EcdsaCodeKey(typ, SeqName(1), TheChain, TheAddress)

\* The channel's Set, Get, Peek and Delete method.
SetCodeOf(ch, store, typ, t) ==
    CASE ch = "MOBILE" ->
            SetMobileCode(store, ClientMobileCode(typ), CacheTTL, t, "ok")
      [] ch = "EMAIL"  ->
            SetEmailCode(store, ClientEmailCode(typ), CacheTTL, t, "ok")
      [] ch = "ECDSA"  ->
            SetEcdsaCode(store, ClientEcdsaCode(typ), CacheTTL, t, "ok")

GetCodeOf(ch, store, typ, t) ==
    CASE ch = "MOBILE" ->
            GetMobileCode(store, typ, SeqName(1), TheMobile, TheCountry, t, "ok")
      [] ch = "EMAIL"  ->
            GetEmailCode(store, typ, SeqName(1), TheEmail, t, "ok")
      [] ch = "ECDSA"  ->
            GetEcdsaCode(store, typ, SeqName(1), TheChain, TheAddress, t, "ok")

PeekCodeOf(ch, store, typ, t) ==
    CASE ch = "MOBILE" ->
            PeekMobileCode(store, typ, SeqName(1), TheMobile, TheCountry, t, "ok")
      [] ch = "EMAIL"  ->
            PeekEmailCode(store, typ, SeqName(1), TheEmail, t, "ok")
      [] ch = "ECDSA"  ->
            PeekEcdsaCode(store, typ, SeqName(1), TheChain, TheAddress, t, "ok")

DeleteCodeOf(ch, store, typ) ==
    CASE ch = "MOBILE" ->
            DeleteMobileCode(store, typ, SeqName(1), TheMobile, TheCountry, "ok")
      [] ch = "EMAIL"  ->
            DeleteEmailCode(store, typ, SeqName(1), TheEmail, "ok")
      [] ch = "ECDSA"  ->
            DeleteEcdsaCode(store, typ, SeqName(1), TheChain, TheAddress, "ok")

CacheFrame ==
    UNCHANGED <<now, cfg, proc, nextSeq, returned, winN, winCounts, lapsed, nv,
                wrongRun, nOK, nBad, lockedOut, sendWin, svars, subscriber>>

\* The credential a client stores on a channel under the type tag typ.
ClientCodeOf(ch, typ) ==
    CASE ch = "MOBILE" -> ClientMobileCode(typ)
      [] ch = "EMAIL"  -> ClientEmailCode(typ)
      [] ch = "ECDSA"  -> ClientEcdsaCode(typ)

NoPut == [code |-> NoCode, at |-> -1, has |-> FALSE]

\* What a client last stored under key and has not taken or deleted since.
LastPut(key) ==
    IF key \in DOMAIN put
    THEN [code |-> put[key].code, at |-> put[key].at, has |-> TRUE]
    ELSE NoPut

\* The credential stored under a key, decoded as its channel decodes it.
StoredCode(ch, store, key) ==
    CASE ch = "MOBILE" -> GobDecode(store[key].val)
      [] ch = "EMAIL"  -> GobDecodeEmail(store[key].val)
      [] ch = "ECDSA"  -> GobDecodeEcdsa(store[key].val)

\* Set*Code
CacheSet ==
    /\ calls < MaxCacheOps
    /\ \E ch \in Channels, typ \in CacheTypes :
        LET key == CodeKeyOf(ch, typ)
            r   == SetCodeOf(ch, redis, typ, now)
        IN  /\ redis' = r.store
            /\ taken' = Put(taken, key, 0)
            /\ put' = Put(put, key, [code |-> ClientCodeOf(ch, typ), at |-> now])
            /\ ret' = [op |-> "SetCode", ch |-> ch, typ |-> typ, key |-> key,
                       err |-> r.err]
    /\ calls' = calls + 1
    /\ CacheFrame

\* Get*Code
CacheGet ==
    /\ calls < MaxCacheOps
    /\ \E ch \in Channels, typ \in CacheTypes :
        LET key == CodeKeyOf(ch, typ)
            r   == GetCodeOf(ch, redis, typ, now)
        IN  /\ redis' = r.store
            /\ taken' = IF r.err = ErrNone
                        THEN Put(taken, key, Get0(taken, key) + 1)
                        ELSE taken
            /\ ret' = [op |-> "GetCode", ch |-> ch, typ |-> typ, key |-> key,
                       err |-> r.err, code |-> r.code, pre |-> redis,
                       had |-> Exists(redis, key, now),
                       afterTaken |-> (Get0(taken, key) > 0),
                       last |-> LastPut(key)]
            /\ put' = IF r.err = ErrNone THEN Restrict(put, DOMAIN put \ {key})
                      ELSE put
    /\ calls' = calls + 1
    /\ CacheFrame

\* Peek*Code
CachePeek ==
    /\ calls < MaxCacheOps
    /\ \E ch \in Channels, typ \in CacheTypes :
        LET key == CodeKeyOf(ch, typ)
            r   == PeekCodeOf(ch, redis, typ, now)
        IN  ret' = [op |-> "PeekCode", ch |-> ch, typ |-> typ, key |-> key,
                    err |-> r.err, code |-> r.code, pre |-> redis,
                    had |-> Exists(redis, key, now),
                    afterTaken |-> (Get0(taken, key) > 0),
                    last |-> LastPut(key)]
    /\ calls' = calls + 1
    /\ UNCHANGED <<redis, taken, put>>
    /\ CacheFrame

\* Delete*Code
CacheDelete ==
    /\ calls < MaxCacheOps
    /\ \E ch \in Channels, typ \in CacheTypes :
        LET key == CodeKeyOf(ch, typ)
            r   == DeleteCodeOf(ch, redis, typ)
        IN  /\ redis' = r.store
            /\ ret' = [op |-> "DeleteCode", ch |-> ch, typ |-> typ, key |-> key,
                       err |-> r.err]
            /\ put' = Restrict(put, DOMAIN put \ {key})
    /\ calls' = calls + 1
    /\ UNCHANGED taken
    /\ CacheFrame

InitCache == InitVerification(NoCfg)

NextCache ==
    \/ CacheSet
    \/ CacheGet
    \/ CachePeek
    \/ CacheDelete
    \/ Tick

SpecCache == InitCache /\ [][NextCache]_vars

\* C14: Get*Code is an atomic fetch-and-delete.  Of the Get*Code calls made on
\* one stored credential at most one returns it; a call that finds the key
\* returns the credential that was stored and leaves the key absent; a call
\* that does not find it, and every Peek*Code and Get*Code after a call has
\* returned the credential, returns ErrCodeNotFound.
C14_ConsumeOnce ==
    /\ \A key \in DOMAIN taken : taken[key] <= 1
    /\ ret.op = "GetCode" =>
          IF ret.had
          THEN /\ ret.err = ErrNone
               /\ ret.code = StoredCode(ret.ch, ret.pre, ret.key)
               /\ ~Exists(redis, ret.key, now)
          ELSE ret.err = ErrCodeNotFound /\ redis = ret.pre
    /\ (ret.op \in {"GetCode", "PeekCode"} /\ ret.afterTaken) =>
          ret.err = ErrCodeNotFound

\* A Get*Code call misses a credential that an earlier call has taken, for the
\* e-mail or the signature channel and under the other spelling of the type.
C14_Witness ==
    /\ ret.op = "GetCode" /\ ret.err = ErrCodeNotFound /\ ret.afterTaken
    /\ ret.ch # "MOBILE"
    /\ taken[ret.key] = 1

\* The entry a store holds under a key, if any.
SameKey(a, b, key) ==
    /\ (key \in DOMAIN a) = (key \in DOMAIN b)
    /\ key \in DOMAIN a => a[key] = b[key]

\* The type and target of the SendMobileOTP call that returned.
RetTarget == <<Fold(ret.typ), ret.mobile, TheCountry>>

\* C18: the send window is keyed by channel, type and target and not by
\* sequence.  The Count the limiter returns to a SendMobileOTP call is the
\* number of SendMobileOTP calls made for that type and target in the current
\* window, whatever has happened to the sequences issued in it, and the call
\* leaves the send counters of every other type, target and channel as they
\* were.
C18_SendWindowKey ==
    (ret.op = "send" /\ ret.limited) =>
        /\ ret.dec.Count = ret.refN
        /\ ret.dec.Allowed = (ret.refN <= cfg.maxSendAttempts)
        /\ \A typ \in cfg.types, mobile \in cfg.mobiles :
              (Fold(typ) # Fold(ret.typ) \/ mobile # ret.mobile) =>
                  SameKey(ret.pre, ret.post,
                          mobileLimitKey(typ, mobile, TheCountry))
        /\ \A typ \in cfg.types :
              /\ SameKey(ret.pre, ret.post, emailLimitKey(typ, ret.mobile))
              /\ SameKey(ret.pre, ret.post,
                         ecdsaLimitKey(typ, ret.mobile, TheCountry))

\* The second send of a window is counted as the second although the sequence
\* issued by the first has been consumed or locked out.
C18_Witness ==
    /\ ret.op = "send" /\ ret.limited /\ ret.res = ErrNone
    /\ ret.refN = 2
    /\ \E seq \in returned :
          \/ Get0(nOK, seq) >= 1
          \/ seq \in lockedOut

\* C16: type tags are case-insensitive.  In every state the service reaches,
\* a SendMobileOTP call is counted with the calls made under the other
\* spelling of its type, and two type tags that differ only in letter case
\* read, take and delete the same credential, advance and read the same send window and the same
\* verify-failure window, for every target and sequence, and address the same
\* keys of the e-mail and signature channels.
C16_TypeCaseInsensitive ==
    /\ (ret.op = "send" /\ ret.limited) => ret.dec.Count = ret.refN
    /\ \A t1 \in cfg.types, t2 \in cfg.types :
        (t1 # t2 /\ Fold(t1) = Fold(t2)) =>
            /\ \A mobile \in cfg.mobiles :
                  /\ evalFixedWindow(redis, mobileLimitKey(t1, mobile, TheCountry),
                                     cfg.maxSendAttempts, cfg.sendWindowDuration,
                                     now, "ok")
                       = evalFixedWindow(redis,
                                         mobileLimitKey(t2, mobile, TheCountry),
                                         cfg.maxSendAttempts,
                                         cfg.sendWindowDuration, now, "ok")
                  /\ \A seq \in returned :
                        LET k1 == mobileIncorrectKey(t1, seq, mobile, TheCountry)
                            k2 == mobileIncorrectKey(t2, seq, mobile, TheCountry)
                        IN  /\ PeekMobileCode(redis, t1, seq, mobile, TheCountry,
                                              now, "ok")
                                 = PeekMobileCode(redis, t2, seq, mobile,
                                                  TheCountry, now, "ok")
                            /\ GetMobileCode(redis, t1, seq, mobile, TheCountry,
                                             now, "ok")
                                 = GetMobileCode(redis, t2, seq, mobile,
                                                 TheCountry, now, "ok")
                            /\ DeleteMobileCode(redis, t1, seq, mobile,
                                                TheCountry, "ok")
                                 = DeleteMobileCode(redis, t2, seq, mobile,
                                                    TheCountry, "ok")
                            /\ getIncorrectCount(redis, k1, now, "ok")
                                 = getIncorrectCount(redis, k2, now, "ok")
                            /\ evalFixedWindow(redis, k1, cfg.maxVerifyIncorrect,
                                               cfg.verifyWindowDuration, now, "ok")
                                 = evalFixedWindow(redis, k2,
                                                   cfg.maxVerifyIncorrect,
                                                   cfg.verifyWindowDuration,
                                                   now, "ok")
                            /\ deleteIncorrect(redis, k1, "ok")
                                 = deleteIncorrect(redis, k2, "ok")
            /\ \A seq \in returned :
                  /\ EmailCodeKey(t1, seq, TheEmail) = EmailCodeKey(t2, seq, TheEmail)
                  /\ EcdsaCodeKey(t1, seq, TheChain, TheAddress)
                       = EcdsaCodeKey(t2, seq, TheChain, TheAddress)
                  /\ emailIncorrectKey(t1, seq, TheEmail)
                       = emailIncorrectKey(t2, seq, TheEmail)
                  /\ ecdsaIncorrectKey(t1, seq, TheChain, TheAddress)
                       = ecdsaIncorrectKey(t2, seq, TheChain, TheAddress)
            /\ emailLimitKey(t1, TheEmail) = emailLimitKey(t2, TheEmail)
            /\ ecdsaLimitKey(t1, TheChain, TheAddress)
                 = ecdsaLimitKey(t2, TheChain, TheAddress)

\* Two SendMobileOTP calls under the two spellings of one type were counted in
\* one send window, and the second was handed the credential's sequence.
C16_Witness ==
    /\ ret.op = "send" /\ ret.limited /\ ret.res = ErrNone
    /\ ret.dec.Count = 2
    /\ RetTarget \in DOMAIN sendWin
    /\ sendWin[RetTarget].typs = {<<"l">>, <<"L">>}

\* What a store holds under a key at time t.
LiveEntry(store, key, t) ==
    IF Exists(store, key, t) THEN <<store[key]>> ELSE << >>

\* C17: verify failures are scoped to one credential.  A VerifyMobileOTP call
\* on one sequence, whether it counts a wrong guess, locks the sequence out or
\* succeeds, leaves the failure count and the stored credential of every
\* other issued sequence of the same type and target as they were, and with
\* them what a verify of that sequence reads.
C17_FailuresScoped ==
    ret.op = "verify" =>
        \A seq \in returned \ {ret.seq} :
            LET fail == mobileIncorrectKey(ret.typ, seq, ret.mobile, TheCountry)
                code == MobileCodeKey(ret.typ, seq, ret.mobile, TheCountry)
            IN  /\ LiveEntry(redis, fail, now) = LiveEntry(ret.pre, fail, now)
                /\ LiveEntry(redis, code, now) = LiveEntry(ret.pre, code, now)
                /\ getIncorrectCount(redis, fail, now, "ok")
                     = getIncorrectCount(ret.pre, fail, now, "ok")
                /\ PeekMobileCode(redis, ret.typ, seq, ret.mobile, TheCountry,
                                  now, "ok")
                     = PeekMobileCode(ret.pre, ret.typ, seq, ret.mobile,
                                      TheCountry, now, "ok")

\* A verify of one sequence has changed that sequence's keys while another
\* issued sequence holds a credential and a failure count.
C17_Witness ==
    /\ ret.op = "verify"
    /\ ret.res \in {ErrNone, ErrCodeIncorrect, ErrMobileVerifyLimitExceeded}
    /\ redis # ret.pre
    /\ \E seq \in returned \ {ret.seq} :
          /\ Exists(redis, MobileCodeKey(ret.typ, seq, ret.mobile, TheCountry),
                    now)
          /\ getIncorrectCount(redis,
                               mobileIncorrectKey(ret.typ, seq, ret.mobile,
                                                  TheCountry),
                               now, "ok").cnt >= 1

\* The failure keys of the three channels for one credential.
IncorrectKeys ==
    {mobileIncorrectKey(typ, SeqName(1), TheMobile, TheCountry) : typ \in Types}
    \cup {emailIncorrectKey(typ, SeqName(1), TheEmail) : typ \in Types}
    \cup {ecdsaIncorrectKey(typ, SeqName(1), TheChain, TheAddress) : typ \in Types}

\* C19: clearing the failures is idempotent.  Delete*CodeIncorrect returns no
\* error, changes nothing when the key is not set, leaves the count reading 0,
\* and a second call leaves the state the first call left.
C19_ClearIdempotent ==
    /\ ret.op = "DeleteMobileCodeIncorrect" =>
          /\ ret.err = ErrNone
          /\ ret.key \notin DOMAIN ret.pre => redis = ret.pre
          /\ redis = Del(ret.pre, ret.key)
          /\ ret.again => redis = ret.pre
          /\ getIncorrectCount(redis, ret.key, now, "ok")
               = [err |-> ErrNone, cnt |-> 0]
    /\ \A key \in IncorrectKeys :
          LET once  == deleteIncorrect(redis, key, "ok")
              twice == deleteIncorrect(once.store, key, "ok")
          IN  /\ once.err = ErrNone
              /\ twice = once
              /\ key \notin DOMAIN redis => once.store = redis
              /\ getIncorrectCount(twice.store, key, now, "ok")
                   = [err |-> ErrNone, cnt |-> 0]

\* DeleteMobileCodeIncorrect is called again right after a call that removed
\* a counter.
C19_Witness ==
    /\ ret.op = "DeleteMobileCodeIncorrect"
    /\ ret.again
    /\ ret.err = ErrNone

(***************************************************************************)
(* VerificationService (verification.go): the service that keeps only a    *)
(* keyed hash of the code in the store when it has a Secret.               *)
(***************************************************************************)
\* hmacSHA256Hex: a keyed digest in hex.  The digest is determined by the
\* secret and the code, differs for different codes, and is written in
\* symbols of its own.
KeySym(c) == IF c = "k" THEN "a1" ELSE "b2"

DigestSym(c) ==
    CASE c = "6" -> "e7"
      [] c = "0" -> "5f"
      [] OTHER -> "c3"

hmacSHA256Hex(secret, code) ==
    [i \in 1..Len(secret) |-> KeySym(secret[i])]
        \o [i \in 1..Len(code) |-> DigestSym(code[i])]

constantEqualHex(a, b) == Len(a) = Len(b) /\ a = b

StaticNewMobileCode(typ, userID, mobile, countryCode, seq, code) ==
    IF typ = << >>
    THEN [err |-> ErrCodeTypeIsEmpty, mc |-> NoCode]
    ELSE [err |-> ErrNone,
          mc |-> [UserID |-> userID, Type |-> ToUpper(typ), Sequence |-> seq,
                  CodeLength |-> Len(code), Code |-> code,
                  Content |-> ContentTemplate, Args |-> <<code>>,
                  Format |-> "fmt.Sprintf", Mobile |-> mobile,
                  CountryCode |-> countryCode]]

\* The record SendMobileOTP hands to SetMobileCode.
HashedForStore(secret, mc) ==
    IF Len(secret) > 0
    THEN [mc EXCEPT !.Code = hmacSHA256Hex(secret, mc.Code)]
    ELSE mc

\* VerifyMobileOTP's comparison of the stored code with the input.
HashedMatch(secret, stored, input) ==
    IF Len(secret) > 0
    THEN constantEqualHex(stored, hmacSHA256Hex(secret, input))
    ELSE Len(stored) = Len(input) /\ stored = input

HashedFrame ==
    UNCHANGED <<now, cfg, winN, winCounts, lapsed, nv, wrongRun, nOK, nBad, lockedOut,
                gvars, svars, subscriber>>

\* VerificationService.SendMobileOTP: the generator, SetMobileCode with the
\* hashed code, Send with the plaintext restored.  The sender delivers or
\* fails; the sequence is returned only when it delivers.
HashedSend(p) ==
    /\ proc[p].pc = "idle"
    /\ CanStart(p)
    /\ calls < cfg.ops
    /\ \E typ \in cfg.types, delivered \in BOOLEAN :
        LET g      == StaticNewMobileCode(typ, TheUser, TheMobile, TheCountry,
                                          SeqName(nextSeq), CodeOK)
            plain  == g.mc.Code
            stored == HashedForStore(cfg.secret, g.mc)
            r      == SetMobileCode(redis, stored, cfg.ttl, now, "ok")
            base   == [op |-> "VerificationService.SendMobileOTP",
                       typ |-> typ, seq |-> g.mc.Sequence, plain |-> plain,
                       key |-> MobileCodeKey(stored.Type, stored.Sequence,
                                             stored.Mobile, stored.CountryCode),
                       sent |-> NoCode, res |-> g.err]
        IN  IF g.err # ErrNone
            THEN /\ Return(p, base)
                 /\ UNCHANGED <<redis, nextSeq, returned>>
            ELSE /\ redis' = r.store
                 /\ nextSeq' = nextSeq + 1
                 /\ returned' = IF delivered
                                THEN returned \cup {g.mc.Sequence}
                                ELSE returned
                 /\ Return(p, [base EXCEPT
                                  !.sent = g.mc,
                                  !.res = IF delivered THEN ErrNone
                                          ELSE ErrSender])
    /\ calls' = calls + 1
    /\ HashedFrame

\* VerificationService.VerifyMobileOTP: PeekMobileCode and the comparison.
HashedVerifyPeek(p) ==
    /\ proc[p].pc = "idle"
    /\ CanStart(p)
    /\ calls < cfg.ops
    /\ \E typ \in cfg.types, seq \in returned, input \in {CodeOK, CodeBad} :
        LET r    == PeekMobileCode(redis, typ, seq, TheMobile, TheCountry, now,
                                   "ok")
            base == [pc |-> "idle", op |-> "VerificationService.VerifyMobileOTP",
                     typ |-> typ, seq |-> seq, input |-> input, ok |-> FALSE,
                     res |-> ErrNone]
        IN  IF r.err # ErrNone
            THEN Return(p, [base EXCEPT !.res = r.err])
            ELSE IF ~HashedMatch(cfg.secret, r.code.Code, input)
            THEN Return(p, base)
            ELSE Goto(p, [base EXCEPT !.pc = "HV_del"])
    /\ calls' = calls + 1
    /\ UNCHANGED <<redis, nextSeq, returned>>
    /\ HashedFrame

\* VerificationService.VerifyMobileOTP: DeleteMobileCode after a match.
HashedVerifyDel(p) ==
    /\ proc[p].pc = "HV_del"
    /\ LET r == DeleteMobileCode(redis, proc[p].typ, proc[p].seq, TheMobile,
                                 TheCountry, "ok")
       IN  /\ redis' = r.store
           /\ Return(p, [proc[p] EXCEPT !.pc = "idle", !.ok = TRUE])
    /\ UNCHANGED <<calls, nextSeq, returned>>
    /\ HashedFrame

Secrets == {<< >>, <<"k">>}

CfgHashed ==
    {[c EXCEPT !.secret = secret] :
        c \in CfgSet(TRUE, FALSE, MaxTime, MaxOpsHashed), secret \in Secrets}

InitHashed == \E c \in CfgHashed : InitVerification(c)

NextHashed ==
    \/ \E p \in Procs : HashedSend(p)
    \/ \E p \in Procs : HashedVerifyPeek(p)
    \/ \E p \in Procs : HashedVerifyDel(p)
    \/ Tick

SpecHashed == InitHashed /\ [][NextHashed]_vars

\* A string occurs in another.
IsSubstring(sub, str) ==
    \E i \in 0..(Len(str) - Len(sub)) : SubSeq(str, i + 1, i + Len(sub)) = sub

\* The gob fields of a stored MobileCode that hold a string, and its Args.
StringFields == {2, 3, 5, 6, 8, 9}
ArgsField == 7

\* C20: with a non-empty Secret, no field of the record SendMobileOTP has
\* written to the store contains the plaintext code, and the record handed to
\* the sender carries the plaintext.
C20_NoPlaintextAtRest ==
    (/\ ret.op = "VerificationService.SendMobileOTP"
     /\ Len(cfg.secret) > 0
     /\ ret.key \in DOMAIN redis) =>
        LET data == redis[ret.key].val
        IN  /\ \A f \in StringFields : ~IsSubstring(ret.plain, data[f])
            /\ \A a \in DOMAIN data[ArgsField] :
                  ~IsSubstring(ret.plain, data[ArgsField][a])
            /\ ret.sent.Code = ret.plain

(***************************************************************************)
(* The key builders applied to arbitrary component strings.                *)
(***************************************************************************)
KeyAlphabet == {"l", "L", ":"}
Strs == UNION {[1..n -> KeyAlphabet] : n \in 0..MaxLen}

\* The components after the type: sequence and target for a credential or a
\* failure window, the target alone for a send window.
KeyArity(ns, ch) ==
    (IF ns = "LIMIT" THEN 0 ELSE 1) + (IF ch = "EMAIL" THEN 1 ELSE 2)

KeyOf(ns, ch, typ, c) ==
    CASE ns = "CODE" /\ ch = "MOBILE" -> MobileCodeKey(typ, c[1], c[2], c[3])
      [] ns = "CODE" /\ ch = "EMAIL" -> EmailCodeKey(typ, c[1], c[2])
      [] ns = "CODE" /\ ch = "ECDSA" -> EcdsaCodeKey(typ, c[1], c[2], c[3])
      [] ns = "FAILURE" /\ ch = "MOBILE" ->
            mobileIncorrectKey(typ, c[1], c[2], c[3])
      [] ns = "FAILURE" /\ ch = "EMAIL" -> emailIncorrectKey(typ, c[1], c[2])
      [] ns = "FAILURE" /\ ch = "ECDSA" ->
            ecdsaIncorrectKey(typ, c[1], c[2], c[3])
      [] ns = "LIMIT" /\ ch = "MOBILE" -> mobileLimitKey(typ, c[1], c[2])
      [] ns = "LIMIT" /\ ch = "EMAIL" -> emailLimitKey(typ, c[1])
      [] ns = "LIMIT" /\ ch = "ECDSA" -> ecdsaLimitKey(typ, c[1], c[2])

\* A caller builds the key of one namespace for a channel, a type and
\* components.
BuildKey(ns) ==
    /\ \E ch \in Channels, typ \in Strs :
         \E c \in [1..KeyArity(ns, ch) -> Strs] :
            ret' = [op |-> "key", ns |-> ns, ch |-> ch, typ |-> typ, c |-> c,
                    key |-> KeyOf(ns, ch, typ, c)]
    /\ UNCHANGED <<now, redis, cfg, proc, nextSeq, returned, winN, winCounts,
                   lapsed, nv, wrongRun, nOK, nBad, calls, lockedOut, gvars, svars, subscriber>>

CodeKeys == BuildKey("CODE")
LimitKeys == BuildKey("LIMIT")
FailureKeys == BuildKey("FAILURE")

InitKeys == InitVerification(NoCfg)

NextKeys ==
    \/ CodeKeys
    \/ LimitKeys
    \/ FailureKeys

SpecKeys == InitKeys /\ [][NextKeys]_vars

\* C21: store keys are collision-free.  The key built for a namespace,
\* channel, type and components differs from the key built for any other
\* namespace, channel, upper-cased type or components, whatever strings the
\* components are.
C21_KeysCollisionFree ==
    ret.op = "key" =>
        \A ns \in {"CODE", "LIMIT", "FAILURE"}, ch \in Channels, typ \in Strs :
            \A c \in [1..KeyArity(ns, ch) -> Strs] :
                <<ns, ch, ToUpper(typ), c>>
                    # <<ret.ns, ret.ch, ToUpper(ret.typ), ret.c>>
                => KeyOf(ns, ch, typ, c) # ret.key

\* C22: invalid limiter configuration is rejected before the store is
\* touched.  A limiter call with window <= 0 returns the invalid-window error,
\* a call with a valid window and limit <= 0 returns the invalid-limit error,
\* and in both cases the keyspace is what it was.
C22_InvalidConfigRejected ==
    IsLimiterOp(ret.op) =>
        /\ ret.window <= 0 =>
              ret.err = ErrInvalidWindow /\ redis = ret.pre
        /\ (ret.window > 0 /\ ret.limit <= 0) =>
              ret.err = ErrInvalidLimit /\ redis = ret.pre

\* A call with both an invalid window and an invalid limit is made on a
\* counter that exists, and reports the window.
C22_Witness ==
    /\ IsLimiterOp(ret.op)
    /\ ret.window <= 0 /\ ret.limit <= 0
    /\ ret.err = ErrInvalidWindow
    /\ Exists(ret.pre, ret.key, now)

\* C24: the window is fixed and anchored at the call that creates the key.  A
\* limiter call that finds the counter leaves its expiry where it was and
\* returns the count it found plus one, whether it is allowed or denied; a
\* call that finds no counter, the window of the creating call having
\* elapsed, returns Count = 1 and starts a window of its own duration.
C24_WindowAnchored ==
    (IsLimiterOp(ret.op) /\ ret.err = ErrNone) =>
        /\ Exists(redis, ret.key, now)
        /\ redis[ret.key].val = ret.dec.Count
        /\ ret.dec.ResetIn = (redis[ret.key].exp - now) * Millisecond
        /\ IF Exists(ret.pre, ret.key, now)
           THEN /\ redis[ret.key].exp = ret.pre[ret.key].exp
                /\ ret.dec.Count = ret.pre[ret.key].val + 1
           ELSE /\ redis[ret.key].exp = now + Milliseconds(ret.window)
                /\ ret.dec.Count = 1

\* The first call after a window has elapsed starts a new one.
C24_Witness ==
    /\ IsLimiterOp(ret.op) /\ ret.err = ErrNone
    /\ ret.key \in lapsed
    /\ ret.dec.Count = 1
    /\ now > 0

\* C23: When a store call made during SendMobileOTP or VerifyMobileOTP has
\* failed, the call returns that store failure: never success, ErrCodeIncorrect
\* or a limit error in its place.
C23_StoreFailuresSurfaced ==
    (ret.op \in {"send", "verify"} /\ ret.failed) => StoreFailure(ret.res)
\* The persisted fields of a credential: all but the formatting function.
Persisted(code) == [f \in DOMAIN code \ {"Format"} |-> code[f]]

NoUser == 0
ErrHTTPHeaderNotFound == "header not found"
ErrProvisioner == "provisioner error"

Tokens == {<< >>} \cup Sessions
AuthExpire == Second

\* handler(ctx, req) with the user ctx carries / a return without the call.
Handled(user) == [called |-> TRUE, user |-> user, err |-> ErrNone]
Rejected(err) == [called |-> FALSE, user |-> NoUser, err |-> err]

\* AccessPermissionProvisioner.GetUserByID: the user, or an error.
GetUserByID(userID, found) ==
    IF found THEN [user |-> userID, err |-> ErrNone]
    ELSE [user |-> NoUser, err |-> ErrProvisioner]

\* A required middleware that lets requests through as the optional one does.
userAuthenticateMiddlewareLenient(originUser, ok, token, get, prov) ==
    IF originUser # NoUser THEN Handled(originUser)
    ELSE IF ~ok THEN Handled(NoUser)
    ELSE IF token = << >> THEN Handled(NoUser)
    ELSE IF get.err = ErrSessionNotFound THEN Handled(NoUser)
    ELSE IF get.err # ErrNone THEN Rejected(get.err)
    ELSE IF prov.err # ErrNone THEN Rejected(prov.err)
    ELSE Handled(prov.user)

\* userAuthenticateMiddleware; get and prov are the results of
\* GetUserIDBySessionID and GetUserByID, read only where the code calls them.
userAuthenticateMiddleware(originUser, ok, token, get, prov) ==
    IF originUser # NoUser THEN Handled(originUser)
    ELSE IF ~ok THEN Rejected(ErrHTTPHeaderNotFound)
    ELSE IF token = << >> THEN Rejected(ErrHTTPHeaderNotFound)
    ELSE IF get.err # ErrNone THEN Rejected(get.err)
    ELSE IF prov.err # ErrNone THEN Rejected(prov.err)
    ELSE Handled(prov.user)

optionalUserAuthenticateMiddleware(originUser, ok, token, get, prov) ==
    IF originUser # NoUser THEN Handled(originUser)
    ELSE IF ~ok THEN Handled(NoUser)
    ELSE IF token = << >> THEN Handled(NoUser)
    ELSE IF get.err = ErrSessionNotFound THEN Handled(NoUser)
    ELSE IF get.err # ErrNone THEN Rejected(get.err)
    ELSE IF prov.err # ErrNone THEN Rejected(prov.err)
    ELSE Handled(prov.user)

Middleware(optional, originUser, ok, token, get, prov) ==
    IF optional
    THEN optionalUserAuthenticateMiddleware(originUser, ok, token, get, prov)
    ELSE userAuthenticateMiddleware(originUser, ok, token, get, prov)

\* Whether the middleware gets as far as GetUserIDBySessionID.
LooksUp(originUser, ok, token) == originUser = NoUser /\ ok /\ token # << >>

NoGet == [err |-> ErrNone, userID |-> 0]
NoProv == [user |-> NoUser, err |-> ErrNone]

\* The middleware has returned res for the request req.
AuthDone(req, get, prov) ==
    LET res == Middleware(req.optional, req.originUser, req.ok, req.token,
                          get, prov)
    IN  [pc |-> "idle", op |-> "auth", p |-> req.p, optional |-> req.optional,
         originUser |-> req.originUser, ok |-> req.ok, token |-> req.token,
         known |-> req.known, owner |-> req.owner,
         provided |-> (prov.err = ErrNone),
         called |-> res.called, user |-> res.user, err |-> res.err]

\* A request enters one of the two middlewares: the checks of the context,
\* the transport and the header, and the read of GetUserIDBySessionID.
AuthRequest(p) ==
    /\ sproc[p].pc = "idle"
    /\ SCanStart(p)
    /\ auth.pc = "idle"
    /\ scalls < SessOps
    /\ scalls' = scalls + 1
    /\ \E optional \in BOOLEAN, originUser \in {NoUser, TheUser},
          ok \in BOOLEAN, token \in Tokens :
        LET key == userSessionKey(token)
            req == [pc |-> "lookup", op |-> "none", p |-> p,
                    optional |-> optional, originUser |-> originUser,
                    ok |-> ok, token |-> token,
                    known |-> Exists(sstore, key, clock),
                    owner |-> IF Exists(sstore, key, clock)
                              THEN Atoi(sstore[key].val) ELSE NoUser]
        IN  IF ~LooksUp(originUser, ok, token)
            THEN /\ auth' = AuthDone(req, NoGet, NoProv)
                 /\ sret' = NoRet
                 /\ sproc' = sproc
            ELSE /\ GetRead(p, token, AuthExpire)
                 /\ auth' = IF sret'.op = "get"
                            THEN AuthDone(req, [err |-> sret'.err,
                                                userID |-> sret'.userID],
                                          NoProv)
                            ELSE req
    /\ UNCHANGED <<clock, sstore, vvars, subscriber>>

\* GetUserIDBySessionID returns the user id to the middleware, which asks the
\* provisioner for the user and calls the handler.
AuthReply(p) ==
    /\ auth.pc = "lookup"
    /\ auth.p = p
    /\ GetReturn(p)
    /\ \E found \in BOOLEAN :
        auth' = AuthDone(auth, [err |-> sret'.err, userID |-> sret'.userID],
                         GetUserByID(sret'.userID, found))

InitAuth == InitVerification([NoCfg EXCEPT !.ops = MaxOpsAuth])

NextAuth ==
    \/ \E p \in SProcs : SetUserSessionIDNow(p)
    \/ \E p \in SProcs : SetUserSessionID(p)
    \/ \E p \in SProcs : AuthRequest(p)
    \/ \E p \in SProcs : GetNow(p)
    \/ \E p \in SProcs : GetExpireKey(p)
    \/ \E p \in SProcs : GetExpireMap(p)
    \/ \E p \in SProcs : AuthReply(p)
    \/ SessionTick

SpecAuth == InitAuth /\ [][NextAuth]_vars

\* C26: Required authentication.  userAuthenticateMiddleware calls the handler
\* only with the user its context already held, or with the user of the
\* session its token named when the provisioner returned that user.  Without
\* a user in the context, a request with no transport or an empty token gets
\* ErrHTTPHeaderNotFound and one whose token names no session gets
\* ErrSessionNotFound, the handler not called; the optional middleware calls
\* the handler without a user in those cases.
C26_RequiredAuthentication ==
    auth.op = "auth" =>
        LET noHeader == auth.originUser = NoUser /\ (~auth.ok \/ auth.token = << >>)
            unknown  == LooksUp(auth.originUser, auth.ok, auth.token) /\ ~auth.known
        IN  IF auth.optional
            THEN (noHeader \/ unknown) => auth.called /\ auth.user = NoUser
            ELSE /\ auth.called =>
                       IF auth.originUser # NoUser
                       THEN auth.user = auth.originUser
                       ELSE /\ auth.ok /\ auth.token # << >>
                            /\ auth.known /\ auth.provided
                            /\ auth.user = auth.owner
                 /\ noHeader =>
                       ~auth.called /\ auth.err = ErrHTTPHeaderNotFound
                 /\ unknown =>
                       ~auth.called /\ auth.err = ErrSessionNotFound

\* The required middleware turns away a token that names no session.
C26_Witness ==
    /\ auth.op = "auth" /\ ~auth.optional
    /\ auth.originUser = NoUser /\ auth.ok /\ auth.token # << >>
    /\ ~auth.known
    /\ userSessionKey(auth.token) \notin DOMAIN sstore
    /\ clock > 0
    /\ ~auth.called /\ auth.err = ErrSessionNotFound
\* One caller of the session cache, one call at a time, in longer runs.
InitReap == InitVerification([NoCfg EXCEPT !.ops = MaxOpsReap])
SpecReap == InitReap /\ [][NextSession]_vars

\* The sessions whose expiry, as a user's index records it, lies before the
\* second the instant t is in.
StaleEntries(store, userID, t) ==
    LET mapKey == userSessionMapKey(userID)
    IN  IF Exists(store, mapKey, t)
        THEN {sid \in DOMAIN store[mapKey].val : store[mapKey].val[sid] < Unix(t)}
        ELSE {}

\* C27: Lazy reaping on every touch.  When SetUserSessionID for a user or
\* GetUserIDBySessionID for one of the user's sessions has returned without
\* error, the user's index holds no entry whose recorded expiry had passed
\* (in whole seconds, as the script compares) when the call was made.
C27_ReapedOnTouch ==
    (sret.op \in {"set", "get"} /\ sret.err = ErrNone) =>
        StaleEntries(sstore, sret.userID,
                     IF sret.op = "set" THEN sret.n ELSE sret.t) = {}
\* The failure count of the call's sequence as the call found it.
RetPreCount ==
    IF RetFailKey \in DOMAIN ret.pre THEN ret.pre[RetFailKey].val ELSE 0

\* C28: The failure-limit check precedes the comparison.  A VerifyMobileOTP
\* call that finds the failure count of its sequence at maxVerifyIncorrect or
\* above returns ErrMobileVerifyLimitExceeded whether or not the presented
\* code is correct, leaves neither the credential nor the counter in the
\* store, and does not read the stored code.
C28_LimitBeforeCompare ==
    (ret.op = "verify" /\ RetPreCount >= cfg.maxVerifyIncorrect) =>
        /\ ret.res = ErrMobileVerifyLimitExceeded
        /\ ~ret.read
        /\ RetCodeKey \notin DOMAIN redis
        /\ RetFailKey \notin DOMAIN redis

\* The correct code is presented while the credential is stored and the
\* count stands at the limit.
C28_Witness ==
    /\ ret.op = "verify" /\ ret.correct
    /\ cfg.maxVerifyIncorrect = MaxLimit
    /\ RetPreCount = cfg.maxVerifyIncorrect
    /\ RetCodeKey \in DOMAIN ret.pre
    /\ GobDecode(ret.pre[RetCodeKey].val).Code = ret.input
    /\ ret.res = ErrMobileVerifyLimitExceeded
\* One caller, one call at a time; the verify window is the code TTL or
\* shorter.
CfgGuess ==
    {[c EXCEPT !.verifyWindowDuration = w * Millisecond] :
        c \in CfgSet(TRUE, FALSE, MaxWindowMs, MaxOpsGuess), w \in 1..MaxWindowMs}

InitGuess == \E c \in CfgGuess : InitVerification(c)
SpecGuess == InitGuess /\ [][NextOTP]_vars

\* C29: Guess bound over a credential's lifetime.  In a sequential run, for
\* every verify window and code TTL, at most maxVerifyIncorrect
\* VerifyMobileOTP calls for one issued credential return ErrCodeIncorrect.
C29_GuessBound ==
    \A s \in DOMAIN nBad : nBad[s] <= cfg.maxVerifyIncorrect
\* C30: Guess bound under concurrency.  However concurrent VerifyMobileOTP
\* calls with wrong codes for one credential interleave within one verify
\* window, at most maxVerifyIncorrect of them return ErrCodeIncorrect and the
\* failure counter of the sequence never exceeds maxVerifyIncorrect.
C30_ConcurrentGuessBound ==
    /\ \A s \in DOMAIN nBad : nBad[s] <= cfg.maxVerifyIncorrect
    /\ \A s \in returned, typ \in cfg.types, mobile \in cfg.mobiles :
          LET key == mobileIncorrectKey(typ, s, mobile, TheCountry)
          IN  Exists(redis, key, now) => redis[key].val <= cfg.maxVerifyIncorrect
\* C31: Lockout removes the credential even under store failures.  Whenever
\* VerifyMobileOTP returns ErrMobileVerifyLimitExceeded the credential of its
\* sequence is absent from the store at the return, whichever store calls of
\* the call failed; the counter is not cleared while the credential survives.
C31_LockoutRemovesCredential ==
    (ret.op = "verify" /\ ret.res = ErrMobileVerifyLimitExceeded) =>
        ~Exists(redis, RetCodeKey, now)
(***************************************************************************)
(* The limiter next to a client that does not use the script: its INCR of  *)
(* an absent counter creates the key without a TTL.                        *)
(***************************************************************************)
LimiterKeys ==
    {mobileLimitKey(typ, TheMobile, TheCountry) : typ \in Types}
    \cup {mobileIncorrectKey(typ, SeqName(1), TheMobile, TheCountry) :
             typ \in Types}

ForeignIncr ==
    /\ \E key \in LimiterKeys :
        /\ ~Exists(redis, key, now)
        /\ redis' = Put(redis, key, [val |-> 1, exp |-> NoTTL])
    /\ ret' = NoRet
    /\ UNCHANGED <<winN, winCounts>>
    /\ LimiterFrame

NextRepair ==
    \/ AllowSendMobile
    \/ IncrementMobileCodeIncorrect
    \/ ForeignIncr
    \/ Tick

SpecRepair == InitLimiter /\ [][NextRepair]_vars

\* C32: Every limiter counter carries an expiry.  In every reachable state
\* each send-limit or verify-failure key the script has run on has a TTL with
\* a remaining lifetime above 0 and within the window; a call that creates
\* the key gives it its window, a call that finds it with a TTL leaves the
\* TTL alone, and a call that finds it without a TTL applies its full window.
C32_CountersExpire ==
    /\ \A key \in DOMAIN redis \cap DOMAIN winN :
          /\ redis[key].exp # NoTTL
          /\ redis[key].exp - now > 0
          /\ redis[key].exp - now <= MaxWindowMs
    /\ (IsLimiterOp(ret.op) /\ ret.err = ErrNone) =>
          /\ ret.key \in DOMAIN redis \cap DOMAIN winN
          /\ IF Exists(ret.pre, ret.key, now) /\ ret.pre[ret.key].exp # NoTTL
             THEN redis[ret.key].exp = ret.pre[ret.key].exp
             ELSE redis[ret.key].exp = now + Milliseconds(ret.window)
          /\ ret.dec.ResetIn = (redis[ret.key].exp - now) * Millisecond

\* A call finds a counter without a TTL and gives it the window.
C32_Witness ==
    /\ IsLimiterOp(ret.op) /\ ret.err = ErrNone
    /\ Exists(ret.pre, ret.key, now)
    /\ ret.pre[ret.key].exp = NoTTL
    /\ redis[ret.key].exp = now + Milliseconds(ret.window)
    /\ now > 0

(***************************************************************************)
(* Several credentials outstanding at once.                                *)
(***************************************************************************)
\* The keys a SendMobileOTP call may write: its send counter and its code.
SendOwnKeys(r) ==
    {mobileLimitKey(r.typ, r.mobile, TheCountry),
     MobileCodeKey(r.mc.Type, r.mc.Sequence, r.mc.Mobile, r.mc.CountryCode)}

\* The keys a VerifyMobileOTP call may write: the code and the failure
\* counter of the sequence presented.
VerifyOwnKeys(r) ==
    {MobileCodeKey(r.typ, r.seq, r.mobile, TheCountry),
     mobileIncorrectKey(r.typ, r.seq, r.mobile, TheCountry)}

\* Every key the call found, other than its own, is as the call found it,
\* or has reached its own expiry meanwhile.
Untouched(pre, own) ==
    \A k \in DOMAIN pre \ own :
        IF k \in DOMAIN redis THEN redis[k] = pre[k]
        ELSE ~Exists(pre, k, now)

\* C33: several credentials may be outstanding at once.  A successful
\* SendMobileOTP stores its code under a key that did not exist, so that its
\* sequence differs from that of every credential outstanding, and leaves
\* every other credential and failure counter as it found them; a
\* VerifyMobileOTP call, whatever it returns, changes only the code and the
\* failure counter of the sequence presented, so that the other sequences
\* keep their codes, counters and expiries.
C33_IndependentCredentials ==
    IF ret.op = "send" /\ ret.res = ErrNone
    THEN /\ SendOwnKeys(ret) \cap DOMAIN ret.pre
              \subseteq {mobileLimitKey(ret.typ, ret.mobile, TheCountry)}
         /\ Untouched(ret.pre, SendOwnKeys(ret))
    ELSE IF ret.op = "verify"
    THEN Untouched(ret.pre, VerifyOwnKeys(ret))
    ELSE TRUE

\* A second send for the same type and target has returned while the code of
\* the first is in the store.
C33_Witness ==
    /\ ret.op = "send" /\ ret.res = ErrNone
    /\ \E s \in returned \ {ret.mc.Sequence} :
          LET k == MobileCodeKey(ret.typ, s, ret.mobile, TheCountry)
          IN  k \in DOMAIN ret.pre /\ Exists(redis, k, now)

\* A verify call on one sequence has locked it out while the code of another
\* sequence is in the store.
C33_WitnessLock ==
    /\ ret.op = "verify" /\ ret.res = ErrMobileVerifyLimitExceeded
    /\ \E s \in returned \ {ret.seq} :
          Exists(redis, MobileCodeKey(ret.typ, s, ret.mobile, TheCountry), now)


(***************************************************************************)
(* The frame of a call on one session.                                     *)
(***************************************************************************)
\* The primary record of a session: its value and expiry; no value if none.
PrimaryRecord(store, sessionID, t) ==
    LET key == userSessionKey(sessionID)
    IN  IF Exists(store, key, t) THEN store[key]
        ELSE [val |-> << >>, exp |-> NoTTL]

\* The recorded expiry of the entry has not passed.
Unexpired(store, userID, sessionID, t) ==
    /\ IndexEntry(store, userID, sessionID, t) # NoEntry
    /\ IndexEntry(store, userID, sessionID, t) * Second > t

\* The caller p of the session cache takes a step of a call on sessionID.
ActsOn(p, sessionID) ==
    /\ sproc[p].pc # "idle"
    /\ sproc'[p] # sproc[p]
    /\ sproc[p].sessionID = sessionID

\* C34: a step of SetUserSessionID or GetUserIDBySessionID on a session A
\* leaves the primary record of every other session B as it is, and leaves
\* every entry of B in a user's index whose recorded expiry has not passed
\* in place with the same recorded expiry.
C34_OtherSessionsUntouched ==
    [][\A p \in SProcs, A \in Sessions :
          ActsOn(p, A) =>
              \A B \in Sessions \ {A} :
                  /\ PrimaryRecord(sstore', B, clock)
                        = PrimaryRecord(sstore, B, clock)
                  /\ \A userID \in Users :
                        Unexpired(sstore, userID, B, clock) =>
                            IndexEntry(sstore', userID, B, clock)
                              = IndexEntry(sstore, userID, B, clock)]_vars

\* A call on one session has returned a user who has an unexpired entry and
\* a primary record of another session.
C34_Witness ==
    /\ sret.op = "get" /\ sret.err = ErrNone
    /\ \E B \in Sessions \ {sret.sessionID} :
          /\ Unexpired(sstore, sret.userID, B, clock)
          /\ Exists(sstore, userSessionKey(B), clock)


\* C35: every existing per-user session-index key carries an expiry.
C35_IndexKeyExpires ==
    \A userID \in Users :
        LET mapKey == userSessionMapKey(userID)
        IN  Exists(sstore, mapKey, clock) => sstore[mapKey].exp # NoTTL


\* The primary record of the session exists and names the user.
MapsTo(store, sessionID, userID, t) ==
    LET key == userSessionKey(sessionID)
    IN  Exists(store, key, t) /\ Atoi(store[key].val) = userID

\* C36: every entry of a user's session index whose recorded expiry has not
\* passed names a session whose primary record exists and maps to that user.
C36_IndexSound ==
    \A userID \in Users, sessionID \in Sessions :
        Unexpired(sstore, userID, sessionID, clock) =>
            MapsTo(sstore, sessionID, userID, clock)


(***************************************************************************)
(* Calls with an empty type.                                               *)
(***************************************************************************)
\* One caller, one call at a time; the type argument may be empty.
MaxOpsEmpty == 3
EmptyType == << >>

CfgEmpty ==
    {[c EXCEPT !.types = Types \cup {EmptyType}] :
        c \in CfgSet(TRUE, FALSE, MaxWindowMs, MaxOpsEmpty)}

InitEmpty == \E c \in CfgEmpty : InitVerification(c)
SpecEmpty == InitEmpty /\ [][NextOTP]_vars

\* C37: a SendMobileOTP call with an empty type returns ErrCodeTypeIsEmpty,
\* hands nothing to the sender, and leaves the store as it found it: no code
\* is written and no send counter is created or incremented.
C37_EmptyTypeNoEffect ==
    (ret.op = "send" /\ ret.typ = EmptyType) =>
        /\ ret.res = ErrCodeTypeIsEmpty
        /\ ~ret.sent
        /\ ~ret.wrote
        /\ ret.post = ret.pre
        /\ redis = ret.pre

\* The result and the sender alone.
C37_EmptyTypeRejected ==
    (ret.op = "send" /\ ret.typ = EmptyType) =>
        /\ ret.res \in {ErrCodeTypeIsEmpty, ErrMobileSendLimitExceeded}
        /\ ~ret.sent
        /\ ~ret.wrote


\* C38: a limiter call with a window > 0 and a limit >= 1, the store
\* reachable, returns a LimitDecision and no error, and a call that finds no
\* counter creates it with a positive TTL no longer than the window.
C38_PositiveWindowAccepted ==
    (IsLimiterOp(ret.op) /\ ret.window > 0 /\ ret.limit >= 1) =>
        /\ ret.err = ErrNone
        /\ ret.dec.Count >= 1
        /\ ~Exists(ret.pre, ret.key, now) =>
              /\ Exists(redis, ret.key, now)
              /\ redis[ret.key].exp # NoTTL
              /\ redis[ret.key].exp - now > 0
              /\ (redis[ret.key].exp - now) * Millisecond <= ret.window

\* The same for windows of at least one millisecond.
C38_MillisecondWindowAccepted ==
    (IsLimiterOp(ret.op) /\ ret.window < Millisecond) \/ C38_PositiveWindowAccepted


\* C39: when SetUserSessionID(sessionID, userID, d), called at the instant n,
\* has returned before n + d, the primary key of the session exists and does
\* not expire before n + d: the session resolves at every instant less than
\* d after the call.
C39_TTLHonoured ==
    (sret.op = "set" /\ clock < sret.n + sret.expire) =>
        LET key == userSessionKey(sret.sessionID)
        IN  /\ Exists(sstore, key, clock)
            /\ sstore[key].exp >= sret.n + sret.expire

\* The same in whole seconds, as the script is given the instants.
C39_TTLHonouredUnix ==
    (sret.op = "set" /\ clock < Unix(sret.n + sret.expire) * Second) =>
        LET key == userSessionKey(sret.sessionID)
        IN  /\ Exists(sstore, key, clock)
            /\ sstore[key].exp = Unix(sret.n + sret.expire) * Second


(***************************************************************************)
(* The JetStream subscriber (nats/subscriber/subscriber.go).  The consumer  *)
(* acknowledges explicitly; the server redelivers a message that is not    *)
(* acknowledged within AckWait, up to MaxDeliverAttempts deliveries.       *)
(***************************************************************************)
MaxDeliverAttempts == 2
MaxFetches == 4

ErrCanceled == "context canceled"
ErrDeadlineExceeded == "context deadline exceeded"
ErrTimeout == "nats: timeout"
ErrConsumerLeadershipChanged == "nats: consumer leadership changed"
ErrConnectionClosed == "nats: connection closed"
ErrManager == "failed to create jet stream manager"
ErrPullSubscribe == "failed to pull subcription"
ErrHandler == "handler error"

\* The outcomes of initialConsumer, conn.JetStream and jsc.PullSubscribe.
SetupOutcomes == {ErrNone, ErrManager, ErrPullSubscribe}

\* The errors subscription.Fetch may return; ErrNone with a batch.
FetchOutcomes ==
    {ErrNone, ErrConsumerLeadershipChanged, ErrDeadlineExceeded, ErrCanceled,
     ErrTimeout, ErrConnectionClosed}

\* fetchMessage: errors.Is(err, nats.ErrConsumerLeadershipChanged)
LeadershipChanged(err) == err = ErrConsumerLeadershipChanged

\* fetchMessage: the fetch errors after which it returns nil.
Ignorable(err) == err \in {ErrDeadlineExceeded, ErrCanceled, ErrTimeout}

\* An acknowledgement whatever the handler returned.
ShouldAckAlways(err) == TRUE

\* fetchMessage: the message is acknowledged unless the handler failed.
ShouldAck(err) == err = ErrNone

\* The messages the server may hand to a fetch.
Deliverable ==
    {m \in Msgs : /\ ~subscriber.msgs[m].acked
                  /\ ~subscriber.msgs[m].pending
                  /\ subscriber.msgs[m].deliveries < MaxDeliverAttempts}

SubscriberFrame == UNCHANGED <<vvars, svars>>

\* Subscribe up to its loop: the consumer, the JetStream context and the
\* pull subscription; a failure of any of them is returned.
Subscribe ==
    /\ subscriber.pc = "idle"
    /\ \E err \in SetupOutcomes :
        subscriber' =
            IF err # ErrNone
            THEN [subscriber EXCEPT !.pc = "done", !.result = err,
                                    !.last = "setup"]
            ELSE [subscriber EXCEPT !.pc = "select", !.subscribed = TRUE,
                                    !.last = "setup"]
    /\ SubscriberFrame

\* The caller cancels the context.
Cancel ==
    /\ subscriber.ctx = ErrNone
    /\ subscriber' = [subscriber EXCEPT !.ctx = ErrCanceled]
    /\ SubscriberFrame

\* The loop of Subscribe: select on ctx.Done(), else fetchMessage; on return
\* the deferred Unsubscribe runs.
SubscribeSelect ==
    /\ subscriber.pc = "select"
    /\ subscriber.ctx # ErrNone \/ subscriber.fetches < MaxFetches
    /\ subscriber' =
           IF subscriber.ctx # ErrNone
           THEN [subscriber EXCEPT !.pc = "done", !.result = subscriber.ctx,
                                   !.unsubscribed = TRUE, !.last = "ctx"]
           ELSE [subscriber EXCEPT !.pc = "fetch", !.fetches = @ + 1,
                                   !.last = "select"]
    /\ SubscriberFrame

\* fetchMessage: subscription.Fetch(1) returns, and the checks of its error.
Fetch ==
    /\ subscriber.pc = "fetch"
    /\ \E err \in FetchOutcomes,
          m \in (IF Deliverable = {} THEN {NoMsg} ELSE Deliverable) :
        subscriber' =
            IF LeadershipChanged(err)
            THEN [subscriber EXCEPT !.pc = "jitter", !.ferr = err,
                                    !.last = "fetch"]
            ELSE IF Ignorable(err)
            THEN [subscriber EXCEPT !.pc = "select", !.ferr = err,
                                    !.last = "fetch"]
            ELSE IF err # ErrNone
            THEN [subscriber EXCEPT !.pc = "done", !.ferr = err,
                                    !.result = err, !.unsubscribed = TRUE,
                                    !.last = "fetch"]
            ELSE IF m = NoMsg
            THEN [subscriber EXCEPT !.pc = "select", !.ferr = err,
                                    !.last = "fetch"]
            ELSE [subscriber EXCEPT !.pc = "handle", !.ferr = err, !.cur = m,
                                    !.msgs[m].pending = TRUE,
                                    !.msgs[m].deliveries = @ + 1,
                                    !.last = "fetch"]
    /\ SubscriberFrame

\* fetchMessage after a leadership change: ctx.Done() or the jitter timer,
\* and nil either way.
Jitter ==
    /\ subscriber.pc = "jitter"
    /\ subscriber' = [subscriber EXCEPT !.pc = "select", !.last = "jitter"]
    /\ SubscriberFrame

\* fetchMessage: handler.Handle returns; an error is logged and nil returned.
Handle ==
    /\ subscriber.pc = "handle"
    /\ \E err \in {ErrNone, ErrHandler} :
        LET m    == subscriber.cur
            told == [subscriber EXCEPT
                        !.msgs[m].oks = IF err = ErrNone THEN @ + 1 ELSE @,
                        !.msgs[m].errs = IF err = ErrNone THEN @ ELSE @ + 1,
                        !.lastMsg = m,
                        !.last = IF err = ErrNone THEN "handled"
                                 ELSE "handler error"]
        IN  subscriber' =
                IF ShouldAck(err) THEN [told EXCEPT !.pc = "ack"]
                ELSE [told EXCEPT !.pc = "select", !.cur = NoMsg]
    /\ SubscriberFrame

\* fetchMessage: msg.Ack reaches the server or fails; nil either way.
Ack ==
    /\ subscriber.pc = "ack"
    /\ \E ok \in BOOLEAN :
        LET m == subscriber.cur
        IN  subscriber' =
                [subscriber EXCEPT
                    !.pc = "select", !.cur = NoMsg, !.last = "ack",
                    !.lastMsg = m,
                    !.msgs[m].acks = @ + 1,
                    !.msgs[m].acked = ok,
                    !.msgs[m].pending = IF ok THEN FALSE ELSE @]
    /\ SubscriberFrame

\* The server: AckWait elapses for a delivered message that is not
\* acknowledged; the message is due for redelivery.
AckWait ==
    /\ \E m \in Msgs :
        /\ subscriber.msgs[m].pending
        /\ ~subscriber.msgs[m].acked
        /\ subscriber' = [subscriber EXCEPT !.msgs[m].pending = FALSE]
    /\ SubscriberFrame

InitSubscriber == InitVerification(NoCfg)

NextSubscriber ==
    \/ Subscribe
    \/ Cancel
    \/ SubscribeSelect
    \/ Fetch
    \/ Jitter
    \/ Handle
    \/ Ack
    \/ AckWait

SpecSubscriber == InitSubscriber /\ [][NextSubscriber]_vars

\* The subscriber has sent an acknowledgement for a message only after the
\* handler returned nil for that delivery; after a handler error the message
\* is not acknowledged and Subscribe is back in its loop.
AckOnlyHandled ==
    /\ \A m \in Msgs :
          /\ subscriber.msgs[m].acks <= subscriber.msgs[m].oks
          /\ subscriber.msgs[m].acked => subscriber.msgs[m].oks >= 1
    /\ subscriber.last = "handler error" =>
          /\ subscriber.pc = "select"
          /\ subscriber.result = NoResult
          /\ ~subscriber.msgs[subscriber.lastMsg].acked

\* Subscribe has returned the error of the cancelled context, or a fetch
\* error that is not a timeout, a cancellation or a leadership change.
ReturnedOnCtxOrFetch ==
    \/ /\ subscriber.ctx # ErrNone
       /\ subscriber.result = subscriber.ctx
    \/ /\ subscriber.result = subscriber.ferr
       /\ subscriber.ferr \notin
              {ErrNone, ErrTimeout, ErrDeadlineExceeded, ErrCanceled,
               ErrConsumerLeadershipChanged}

\* C40, as stated: acknowledgement only after the handler returned nil, no
\* acknowledgement and no return after a handler error, and whenever
\* Subscribe has returned it has returned on context cancellation or on a
\* fetch error other than timeout, cancellation or leadership change.
C40_ReturnsOnlyOnCtxOrFetch ==
    /\ AckOnlyHandled
    /\ subscriber.pc = "done" => ReturnedOnCtxOrFetch

\* C40, amended: the same, for a Subscribe call whose consumer and pull
\* subscription have been set up; a call whose setup fails returns the setup
\* error without fetching.
C40_AtLeastOnce ==
    /\ AckOnlyHandled
    /\ (subscriber.pc = "done" /\ subscriber.subscribed) =>
          ReturnedOnCtxOrFetch

\* A message whose handler failed has been delivered again, handled and
\* acknowledged.
C40_Witness ==
    \E m \in Msgs :
        /\ subscriber.msgs[m].errs >= 1
        /\ subscriber.msgs[m].deliveries = 2
        /\ subscriber.msgs[m].acked

\* Subscribe has returned the context's error after a handler error.
C40_WitnessReturn ==
    /\ subscriber.pc = "done" /\ subscriber.last = "ctx"
    /\ \E m \in Msgs : subscriber.msgs[m].errs >= 1

====
